---- MODULE Spec2Model ----
(***************************************************************************)
(* The IoT command module of azure-cli (custom.py): the commands that      *)
(* read an IoT Hub or a Device Provisioning Service (DPS), change one of   *)
(* its sub-collections in memory and send the whole resource back.         *)
(*                                                                         *)
(* The service side is two resources, hub and dps.  Every command is one   *)
(* action; what the command did (its network calls, the resource it        *)
(* fetched, the resource it sent, the if-match header, the error it        *)
(* raised) is recorded in last.                                            *)
(*                                                                         *)
(* Three more pieces of state serve the commands that do not run alone or  *)
(* that work on other collections: race holds, for each of two callers, a  *)
(* command that has read its resource and not yet sent it; certs holds the *)
(* certificates of the hub and of the DPS; listing holds the names that    *)
(* the subscription lists, in listing order.                               *)
(***************************************************************************)
EXTENDS Integers, Sequences, FiniteSets, TLC

VARIABLES hub, dps, last, cmds, race, certs, listing

vars == <<hub, dps, last, cmds, race, certs, listing>>

(***************************************************************************)
(* Bounds.                                                                 *)
(***************************************************************************)
\* number of commands issued in one run
MaxCmds == 2

\* number of resources the subscription lists, when the listing varies
MaxListed == 3

(***************************************************************************)
(* Python values.  An optional value is None or Some(v); a resource that   *)
(* does not exist on the service is None as well.                          *)
(***************************************************************************)
None == <<>>

Some(v) == <<v>>

Val(o) == o[1]

\* Python truth value of an optional string: None and '' are false
TruthyStr(o) == o # None /\ Val(o) # ""

\* the index of the first entry that passes the test (passes[i] says whether
\* entry i does), 0 when none does
FirstIndex(passes) ==
    IF \E i \in 1..Len(passes) : passes[i]
    THEN CHOOSE i \in 1..Len(passes) : passes[i] /\ \A j \in 1..(i - 1) : ~passes[j]
    ELSE 0

\* str.lower() on the strings of the model
Lower(s) ==
    CASE s = "N1" -> "n1"
      [] s = "EventHub" -> "eventhub"
      [] s = "DeviceMessages" -> "devicemessages"
      [] s = "TwinChangeEvents" -> "twinchangeevents"
      [] OTHER -> s

\* timedelta(hours=n), timedelta(seconds=n): a duration in seconds
Hours(n) == n * 3600

Seconds(n) == n

(***************************************************************************)
(* Argument values the commands are run with.                              *)
(***************************************************************************)
Names == {"n1", "N1", "n2"}

ResourceGroups == {Some("rg")}

\* shared.py EndpointType
EventHub == "eventhub"

ServiceBusQueue == "servicebusqueue"

ServiceBusTopic == "servicebustopic"

AzureStorageContainer == "azurestoragecontainer"

\* shared.py EncodingFormat.AVRO
AVRO == "avro"

\* shared.py RenewKeyType
RenewPrimary == "primary"

RenewSecondary == "secondary"

RenewSwap == "swap"

(***************************************************************************)
(* SimpleAccessRights and _convert_perms_to_access_rights.                 *)
(***************************************************************************)
SimpleAccessRights == {"registryread", "registrywrite", "serviceconnect", "deviceconnect"}

\* SortedPerms looking at the first permission only
SortedPerms_first_only(perm_list) == <<perm_list[1]>>

\* sorted(set(perm_list)): the four permissions in str order
SortedPerms(perm_list) ==
    LET perm_set == {perm_list[i] : i \in 1..Len(perm_list)}
        order == <<"deviceconnect", "registryread", "registrywrite", "serviceconnect">>
    IN  SelectSeq(order, LAMBDA p : p \in perm_set)

\* access_rights_mapping, keyed by the sorted permissions joined with '_'
access_rights_mapping ==
    [k \in { <<"registryread">>, <<"registrywrite">>, <<"serviceconnect">>, <<"deviceconnect">>,
             <<"registryread", "registrywrite">>, <<"registryread", "serviceconnect">>,
             <<"deviceconnect", "registryread">>, <<"registrywrite", "serviceconnect">>,
             <<"deviceconnect", "registrywrite">>, <<"deviceconnect", "serviceconnect">>,
             <<"registryread", "registrywrite", "serviceconnect">>,
             <<"deviceconnect", "registryread", "registrywrite">>,
             <<"deviceconnect", "registryread", "serviceconnect">>,
             <<"deviceconnect", "registrywrite", "serviceconnect">>,
             <<"deviceconnect", "registryread", "registrywrite", "serviceconnect">> } |->
        CASE k = <<"registryread">> -> {"RegistryRead"}
          [] k = <<"registrywrite">> -> {"RegistryWrite"}
          [] k = <<"serviceconnect">> -> {"ServiceConnect"}
          [] k = <<"deviceconnect">> -> {"DeviceConnect"}
          [] k = <<"registryread", "registrywrite">> -> {"RegistryRead", "RegistryWrite"}
          [] k = <<"registryread", "serviceconnect">> -> {"RegistryRead", "ServiceConnect"}
          [] k = <<"deviceconnect", "registryread">> -> {"RegistryRead", "DeviceConnect"}
          [] k = <<"registrywrite", "serviceconnect">> -> {"RegistryWrite", "ServiceConnect"}
          [] k = <<"deviceconnect", "registrywrite">> -> {"RegistryWrite", "DeviceConnect"}
          [] k = <<"deviceconnect", "serviceconnect">> -> {"ServiceConnect", "DeviceConnect"}
          [] k = <<"registryread", "registrywrite", "serviceconnect">> ->
                {"RegistryRead", "RegistryWrite", "ServiceConnect"}
          [] k = <<"deviceconnect", "registryread", "registrywrite">> ->
                {"RegistryRead", "RegistryWrite", "DeviceConnect"}
          [] k = <<"deviceconnect", "registryread", "serviceconnect">> ->
                {"RegistryRead", "ServiceConnect", "DeviceConnect"}
          [] k = <<"deviceconnect", "registrywrite", "serviceconnect">> ->
                {"RegistryWrite", "ServiceConnect", "DeviceConnect"}
          [] OTHER -> {"RegistryRead", "RegistryWrite", "ServiceConnect", "DeviceConnect"}]

_convert_perms_to_access_rights(perm_list) == access_rights_mapping[SortedPerms(perm_list)]

\* ",".join(list(set(right_list))): the order of a set's elements is not fixed,
\* so the joined string is known only up to the order of its parts
_convert_rights_to_access_rights(right_list) == {right_list[i] : i \in 1..Len(right_list)}

(***************************************************************************)
(* The resources.                                                          *)
(***************************************************************************)
\* the outcome of one command: what it raised, the network calls it made in
\* order, and for a write the resource sent and its IF-MATCH header
Outcome(result, error, calls, fetched, written, if_match) ==
    [result |-> result, error |-> error, calls |-> calls,
     fetched |-> fetched, written |-> written, if_match |-> if_match]

Raise(error, calls, fetched) == Outcome("CLIError", error, calls, fetched, None, None)

Submit(calls, fetched, written, if_match) ==
    Outcome("ok", "", Append(calls, "create_or_update"), fetched, Some(written), if_match)

\* RoutingEndpoints with no endpoint of any type
NoEndpoints ==
    [service_bus_queues |-> <<>>, service_bus_topics |-> <<>>,
     storage_containers |-> <<>>, event_hubs |-> <<>>]

\* the IotHubDescription that iot_hub_create builds
NewHubDescription(location, sku, unit, partition_count, retention_day, c2d_ttl, c2d_max_delivery_count, feedback_lock_duration, feedback_ttl, feedback_max_delivery_count, enable_fileupload_notifications, fileupload_notification_max_delivery_count, fileupload_notification_ttl, fileupload_storage_connectionstring, fileupload_storage_container_name, fileupload_sas_ttl) ==
    [etag |-> None,
     location |-> location,
     sku |-> [name |-> sku, capacity |-> unit],
     properties |->
        [event_hub_endpoints |->
            [events |-> [retention_time_in_days |-> retention_day,
                         partition_count |-> partition_count]],
         messaging_endpoints |->
            [fileNotifications |->
                [max_delivery_count |-> fileupload_notification_max_delivery_count,
                 ttl_as_iso8601 |-> Hours(fileupload_notification_ttl)]],
         storage_endpoints |->
            [default |->
                [sas_ttl_as_iso8601 |-> Hours(fileupload_sas_ttl),
                 connection_string |->
                    IF TruthyStr(fileupload_storage_connectionstring)
                    THEN Val(fileupload_storage_connectionstring) ELSE "",
                 container_name |->
                    IF TruthyStr(fileupload_storage_container_name)
                    THEN Val(fileupload_storage_container_name) ELSE ""]],
         cloud_to_device |->
            [max_delivery_count |-> c2d_max_delivery_count,
             default_ttl_as_iso8601 |-> Hours(c2d_ttl),
             feedback |->
                [lock_duration_as_iso8601 |-> Seconds(feedback_lock_duration),
                 ttl_as_iso8601 |-> Hours(feedback_ttl),
                 max_delivery_count |-> feedback_max_delivery_count]],
         enable_file_upload_notifications |-> enable_fileupload_notifications]]

\* iot_hub_create's defaults for the arguments the caller leaves out
DefaultHubDescription(location, enable, connectionstring, container_name) ==
    NewHubDescription(location, "F1", 1, 4, 1, 1, 10, 5, 1, 10, enable, 10, 1,
                      connectionstring, container_name, 1)

(***************************************************************************)
(* The service: create_or_update stores the resource sent, under a new     *)
(* entity tag; a write with an IF-MATCH header is accepted only when the   *)
(* header equals the stored tag.                                           *)
(***************************************************************************)
NextEtag(stored) == IF stored = None THEN 1 ELSE Val(Val(stored).etag) + 1

\* what the service fills in for a hub that is sent without policies and routing
HubServiceDefaults ==
    [authorization_policies |-> <<>>,
     routing |-> [endpoints |-> NoEndpoints, routes |-> <<>>, enrichments |-> None]]

HubStored(stored, description) ==
    [description EXCEPT
        !.etag = Some(NextEtag(stored)),
        !.properties = @ @@ HubServiceDefaults]

Accepts(stored, if_match) == if_match = None \/ (stored # None /\ if_match = Val(stored).etag)

HubAfter(o) ==
    IF o.written # None /\ Accepts(hub, o.if_match)
    THEN Some(HubStored(hub, Val(o.written)))
    ELSE hub

(***************************************************************************)
(* Looking the hub up.                                                     *)
(***************************************************************************)
\* the result of a lookup: the calls made, and the hub or the error raised
Found(calls, resource) == [ok |-> TRUE, error |-> "", calls |-> calls, resource |-> resource]

NotFound(calls, error) == [ok |-> FALSE, error |-> error, calls |-> calls, resource |-> None]

\* _get_by_name comparing the names as they are
_get_by_name_exact(all_resources, name, kind) ==
    IF all_resources = None
    THEN [NotFound(<<"list_by_subscription">>, "No " \o kind \o " found in current subscription.")
            EXCEPT !.resource = 0]
    ELSE LET names == Val(all_resources)
             target == FirstIndex([k \in 1..Len(names) |-> name = names[k]])
         IN  IF target = 0
             THEN [NotFound(<<"list_by_subscription">>,
                            "No " \o kind \o " found with name in current subscription.")
                     EXCEPT !.resource = 0]
             ELSE Found(<<"list_by_subscription">>, target)

\* the body that _get_iot_hub_by_name and _get_iot_dps_by_name share: the
\* listing of the subscription (None, or the names in listing order) is
\* scanned for the first name that equals the one asked for once both are
\* lower-cased.  found is the place of the resource returned, 0 when the
\* command raises.
_get_by_name(all_resources, name, kind) ==
    IF all_resources = None
    THEN [NotFound(<<"list_by_subscription">>, "No " \o kind \o " found in current subscription.")
            EXCEPT !.resource = 0]
    ELSE LET names == Val(all_resources)
             target == FirstIndex([k \in 1..Len(names) |-> Lower(name) = Lower(names[k])])
         IN  IF target = 0
             THEN [NotFound(<<"list_by_subscription">>,
                            "No " \o kind \o " found with name in current subscription.")
                     EXCEPT !.resource = 0]
             ELSE Found(<<"list_by_subscription">>, target)

\* the name the commands of the model ask for
ResourceName == "n1"

\* what the subscription lists to a hub command: nothing when there is no hub
HubsListed == IF hub = None THEN Some(<<>>) ELSE listing

_get_iot_hub_by_name ==
    LET scanned == _get_by_name(HubsListed, ResourceName, "IoT Hub")
    IN  IF scanned.ok THEN Found(scanned.calls, hub) ELSE NotFound(scanned.calls, scanned.error)

\* a resource group given by the caller is used as it is
_ensure_resource_group_name(resource_group_name) ==
    IF resource_group_name = None
    THEN _get_iot_hub_by_name
    ELSE Found(<<>>, None)

\* the resource groups that exist
ExistingGroups == {"rg"}

\* iot_hub_get asking for the name before it asks for the resource group
iot_hub_get_name_first(resource_group_name) ==
    IF resource_group_name = None
    THEN _get_iot_hub_by_name
    ELSE IF hub = None
         THEN NotFound(<<"check_name_availability">>,
                       "An IotHub under resource group was not found.")
         ELSE IF Val(resource_group_name) \notin ExistingGroups
         THEN NotFound(<<"check_name_availability", "check_existence">>,
                       "Resource group could not be found.")
         ELSE Found(<<"check_name_availability", "check_existence", "get">>, hub)

\* _ensure_resource_group_existence, then check_name_availability, then get;
\* a hub name is available exactly when no hub has it
iot_hub_get(resource_group_name) ==
    IF resource_group_name = None
    THEN _get_iot_hub_by_name
    ELSE IF Val(resource_group_name) \notin ExistingGroups
         THEN NotFound(<<"check_existence">>, "Resource group could not be found.")
         ELSE IF hub = None
         THEN NotFound(<<"check_existence", "check_name_availability">>,
                       "An IotHub under resource group was not found.")
         ELSE Found(<<"check_existence", "check_name_availability", "get">>, hub)

(***************************************************************************)
(* iot hub create                                                          *)
(***************************************************************************)
_ensure_location(location) ==
    IF location = None THEN <<"resource_groups.get">> ELSE <<>>

\* iot_hub_create without the two checks that the connection string and the
\* container name come together
iot_hub_create_unpaired(location, enable_fileupload_notifications, fileupload_storage_connectionstring, fileupload_storage_container_name) ==
    IF /\ enable_fileupload_notifications
       /\ \/ ~TruthyStr(fileupload_storage_connectionstring)
          \/ ~TruthyStr(fileupload_storage_container_name)
    THEN Raise("Please specify storage endpoint(storage connection string and storage container name).",
               <<>>, None)
    ELSE IF hub # None
    THEN Raise("name_availability.message", <<"check_name_availability">>, None)
    ELSE Submit(<<"check_name_availability">> \o _ensure_location(location), None,
                DefaultHubDescription(IF location = None THEN "rg-location" ELSE Val(location),
                                      enable_fileupload_notifications,
                                      fileupload_storage_connectionstring,
                                      fileupload_storage_container_name),
                None)

\* iot_hub_create with the name check moved ahead of the validation
iot_hub_create_checks_name_first(location, enable_fileupload_notifications, fileupload_storage_connectionstring, fileupload_storage_container_name) ==
    IF hub # None
    THEN Raise("name_availability.message", <<"check_name_availability">>, None)
    ELSE IF /\ enable_fileupload_notifications
            /\ \/ ~TruthyStr(fileupload_storage_connectionstring)
               \/ ~TruthyStr(fileupload_storage_container_name)
    THEN Raise("Please specify storage endpoint(storage connection string and storage container name).",
               <<"check_name_availability">>, None)
    ELSE IF /\ TruthyStr(fileupload_storage_connectionstring)
            /\ ~TruthyStr(fileupload_storage_container_name)
    THEN Raise("Please mention storage container name.", <<"check_name_availability">>, None)
    ELSE IF /\ TruthyStr(fileupload_storage_container_name)
            /\ ~TruthyStr(fileupload_storage_connectionstring)
    THEN Raise("Please mention storage connection string.", <<"check_name_availability">>, None)
    ELSE Submit(<<"check_name_availability">> \o _ensure_location(location), None,
                DefaultHubDescription(IF location = None THEN "rg-location" ELSE Val(location),
                                      enable_fileupload_notifications,
                                      fileupload_storage_connectionstring,
                                      fileupload_storage_container_name),
                None)

iot_hub_create(location, enable_fileupload_notifications, fileupload_storage_connectionstring, fileupload_storage_container_name) ==
    IF /\ enable_fileupload_notifications
       /\ \/ ~TruthyStr(fileupload_storage_connectionstring)
          \/ ~TruthyStr(fileupload_storage_container_name)
    THEN Raise("Please specify storage endpoint(storage connection string and storage container name).",
               <<>>, None)
    ELSE IF /\ TruthyStr(fileupload_storage_connectionstring)
            /\ ~TruthyStr(fileupload_storage_container_name)
    THEN Raise("Please mention storage container name.", <<>>, None)
    ELSE IF /\ TruthyStr(fileupload_storage_container_name)
            /\ ~TruthyStr(fileupload_storage_connectionstring)
    THEN Raise("Please mention storage connection string.", <<>>, None)
    ELSE IF hub # None
    THEN Raise("name_availability.message", <<"check_name_availability">>, None)
    ELSE Submit(<<"check_name_availability">> \o _ensure_location(location), None,
                DefaultHubDescription(IF location = None THEN "rg-location" ELSE Val(location),
                                      enable_fileupload_notifications,
                                      fileupload_storage_connectionstring,
                                      fileupload_storage_container_name),
                None)

(***************************************************************************)
(* iot hub policy                                                          *)
(***************************************************************************)
\* list_keys: the hub's shared access policies with their keys
iot_hub_policy_list(h) == h.properties.authorization_policies

\* _is_policy_existed without the lower(): the names compared as they are
_is_policy_existed_exact(policies, policy_name) ==
    policy_name \in {policies[i].key_name : i \in 1..Len(policies)}

_is_policy_existed(policies, policy_name) ==
    LET policy_set == {Lower(policies[i].key_name) : i \in 1..Len(policies)}
    IN  Lower(policy_name) \in policy_set

\* SharedAccessSignatureAuthorizationRule
AuthorizationRule(key_name, rights, primary_key, secondary_key) ==
    [key_name |-> key_name, rights |-> rights,
     primary_key |-> primary_key, secondary_key |-> secondary_key]

iot_hub_policy_create(policy_name, permissions, resource_group_name) ==
    LET rights == _convert_perms_to_access_rights(permissions)
        got == iot_hub_get(resource_group_name)
    IN  IF ~got.ok THEN Raise(got.error, got.calls, None)
        ELSE
        LET h == Val(got.resource)
            calls == Append(got.calls, "list_keys")
            policies == iot_hub_policy_list(h)
        IN  IF _is_policy_existed(policies, policy_name)
            THEN Raise("Policy already existed.", calls, got.resource)
            ELSE Submit(calls, got.resource,
                        [h EXCEPT !.properties.authorization_policies =
                            Append(policies, AuthorizationRule(policy_name, rights, None, None))],
                        h.etag)

\* iot_hub_policy_delete sending the hub with no IF-MATCH header
iot_hub_policy_delete_no_header(policy_name, resource_group_name) ==
    LET got == iot_hub_get(resource_group_name)
    IN  IF ~got.ok THEN Raise(got.error, got.calls, None)
        ELSE
        LET h == Val(got.resource)
            calls == Append(got.calls, "list_keys")
            policies == iot_hub_policy_list(h)
            updated_policies ==
                SelectSeq(policies, LAMBDA p : Lower(p.key_name) # Lower(policy_name))
        IN  IF ~_is_policy_existed(policies, policy_name)
            THEN Raise("Policy not found.", calls, got.resource)
            ELSE Submit(calls, got.resource,
                        [h EXCEPT !.properties.authorization_policies = updated_policies],
                        None)

iot_hub_policy_delete(policy_name, resource_group_name) ==
    LET got == iot_hub_get(resource_group_name)
    IN  IF ~got.ok THEN Raise(got.error, got.calls, None)
        ELSE
        LET h == Val(got.resource)
            calls == Append(got.calls, "list_keys")
            policies == iot_hub_policy_list(h)
            updated_policies ==
                SelectSeq(policies, LAMBDA p : Lower(p.key_name) # Lower(policy_name))
        IN  IF ~_is_policy_existed(policies, policy_name)
            THEN Raise("Policy not found.", calls, got.resource)
            ELSE Submit(calls, got.resource,
                        [h EXCEPT !.properties.authorization_policies = updated_policies],
                        h.etag)

\* generateKey() returns new_key; the caller waits for the write and reads the
\* policy back unless no_wait is set
\* iot_hub_policy_key_renew whose Swap loses the primary key
iot_hub_policy_key_renew_swap_loses_key(policy_name, regenerate_key, new_key, resource_group_name, no_wait) ==
    LET got == iot_hub_get(resource_group_name)
    IN  IF ~got.ok THEN Raise(got.error, got.calls, None)
        ELSE
        LET h == Val(got.resource)
            calls == Append(got.calls, "list_keys")
            policies == iot_hub_policy_list(h)
        IN  IF ~_is_policy_existed(policies, policy_name)
            THEN Raise("Policy not found.", calls, got.resource)
            ELSE
            LET updated_policies ==
                    SelectSeq(policies, LAMBDA p : Lower(p.key_name) # Lower(policy_name))
                requested_policy ==
                    SelectSeq(policies, LAMBDA p : Lower(p.key_name) = Lower(policy_name))
                p0 == requested_policy[1]
                p1 == IF regenerate_key = RenewPrimary
                      THEN [p0 EXCEPT !.primary_key = Some(new_key)] ELSE p0
                p2 == IF regenerate_key = RenewSecondary
                      THEN [p1 EXCEPT !.secondary_key = Some(new_key)] ELSE p1
                p3 == IF regenerate_key = RenewSwap
                      THEN [p2 EXCEPT !.primary_key = p2.secondary_key]
                      ELSE p2
                sent == Submit(calls, got.resource,
                               [h EXCEPT !.properties.authorization_policies =
                                   Append(updated_policies,
                                          AuthorizationRule(p3.key_name, p3.rights,
                                                            p3.primary_key, p3.secondary_key))],
                               h.etag)
            IN  IF no_wait THEN sent
                ELSE [sent EXCEPT !.calls = @ \o <<"wait">>
                                        \o _ensure_resource_group_name(resource_group_name).calls
                                        \o <<"get_keys_for_key_name">>]

iot_hub_policy_key_renew(policy_name, regenerate_key, new_key, resource_group_name, no_wait) ==
    LET got == iot_hub_get(resource_group_name)
    IN  IF ~got.ok THEN Raise(got.error, got.calls, None)
        ELSE
        LET h == Val(got.resource)
            calls == Append(got.calls, "list_keys")
            policies == iot_hub_policy_list(h)
        IN  IF ~_is_policy_existed(policies, policy_name)
            THEN Raise("Policy not found.", calls, got.resource)
            ELSE
            LET updated_policies ==
                    SelectSeq(policies, LAMBDA p : Lower(p.key_name) # Lower(policy_name))
                requested_policy ==
                    SelectSeq(policies, LAMBDA p : Lower(p.key_name) = Lower(policy_name))
                p0 == requested_policy[1]
                p1 == IF regenerate_key = RenewPrimary
                      THEN [p0 EXCEPT !.primary_key = Some(new_key)] ELSE p0
                p2 == IF regenerate_key = RenewSecondary
                      THEN [p1 EXCEPT !.secondary_key = Some(new_key)] ELSE p1
                p3 == IF regenerate_key = RenewSwap
                      THEN [p2 EXCEPT !.primary_key = p2.secondary_key,
                                      !.secondary_key = p2.primary_key]
                      ELSE p2
                sent == Submit(calls, got.resource,
                               [h EXCEPT !.properties.authorization_policies =
                                   Append(updated_policies,
                                          AuthorizationRule(p3.key_name, p3.rights,
                                                            p3.primary_key, p3.secondary_key))],
                               h.etag)
            IN  IF no_wait THEN sent
                ELSE [sent EXCEPT !.calls = @ \o <<"wait">>
                                        \o _ensure_resource_group_name(resource_group_name).calls
                                        \o <<"get_keys_for_key_name">>]

(***************************************************************************)
(* iot hub show-connection-string                                          *)
(***************************************************************************)
\* class KeyType(Enum): a member is equal to itself only, never to a str
KeyType == [primary |-> <<"KeyType", "primary">>, secondary |-> <<"KeyType", "secondary">>]

\* key_type is the str the command line hands over ('primary' by default);
\* the policy asked for by name is found by the service
_get_hub_connection_string(resource_group_name, policy_name, key_type, show_all) ==
    IF hub = None
    THEN NotFound(<<IF show_all THEN "list_keys" ELSE "get_keys_for_key_name">>, "ResourceNotFound")
    ELSE
    LET h == Val(hub)
        policies ==
            IF show_all THEN iot_hub_policy_list(h)
            ELSE SelectSeq(iot_hub_policy_list(h),
                           LAMBDA p : Lower(p.key_name) = Lower(policy_name))
        looked == _get_iot_hub_by_name
    IN  IF policies = <<>> /\ ~show_all
        THEN NotFound(<<"get_keys_for_key_name">>, "ResourceNotFound")
        ELSE IF ~looked.ok
        THEN NotFound(<<IF show_all THEN "list_keys" ELSE "get_keys_for_key_name">>
                        \o looked.calls, looked.error)
        ELSE Found(<<IF show_all THEN "list_keys" ELSE "get_keys_for_key_name">> \o looked.calls,
                   [i \in 1..Len(policies) |->
                       [HostName |-> "host",
                        SharedAccessKeyName |-> policies[i].key_name,
                        SharedAccessKey |->
                            IF <<"str", key_type>> = KeyType.secondary
                            THEN policies[i].secondary_key
                            ELSE policies[i].primary_key]])

\* with a hub name: one connection string, or with show_all one per policy
iot_hub_show_connection_string(resource_group_name, policy_name, key_type, show_all) ==
    LET ens == _ensure_resource_group_name(resource_group_name)
        conn_str == _get_hub_connection_string(resource_group_name, policy_name, key_type, show_all)
    IN  IF ~ens.ok
        THEN [returned |-> <<>>] @@ Raise(ens.error, ens.calls, None)
        ELSE IF ~conn_str.ok
        THEN [returned |-> <<>>] @@
             Outcome(IF conn_str.error = "ResourceNotFound" THEN "CloudError" ELSE "CLIError",
                     conn_str.error, ens.calls \o conn_str.calls, None, None, None)
        ELSE [returned |-> IF show_all THEN conn_str.resource ELSE <<conn_str.resource[1]>>] @@
             Outcome("ok", "", ens.calls \o conn_str.calls, hub, None, None)

(***************************************************************************)
(* iot hub manual-failover                                                 *)
(***************************************************************************)
\* the service fails the hub over to its paired region; the description of
\* the hub, location included, stays as it is.  A hub that does not exist
\* makes the service's manual_failover fail.
iot_hub_manual_failover(failover_region, resource_group_name, no_wait) ==
    LET ens == _ensure_resource_group_name(resource_group_name)
        calls == Append(ens.calls, "manual_failover")
    IN  IF ~ens.ok THEN Raise(ens.error, ens.calls, None)
        ELSE IF hub = None
        THEN Outcome("CloudError", "ResourceNotFound", calls, None, None, None)
        ELSE IF no_wait
        THEN Outcome("ok", "", calls, None, None, None)
        ELSE LET got == iot_hub_get(resource_group_name)
             IN  Outcome("ok", "", calls \o <<"wait">> \o got.calls, None, None, None)

(***************************************************************************)
(* iot hub routing-endpoint                                                *)
(***************************************************************************)
\* the first two statements of the routing commands:
\* _ensure_resource_group_name, then iot_hub_get with the group it returned
HubFetch(resource_group_name) ==
    LET ens == _ensure_resource_group_name(resource_group_name)
    IN  IF ~ens.ok THEN ens
        ELSE LET got == iot_hub_get(Some("rg"))
             IN  [got EXCEPT !.calls = ens.calls \o @]

\* RoutingEventHubProperties, RoutingServiceBusQueueEndpointProperties,
\* RoutingServiceBusTopicEndpointProperties
RoutingEndpoint(connection_string, name, subscription_id, resource_group) ==
    [connection_string |-> connection_string, name |-> name,
     subscription_id |-> subscription_id, resource_group |-> resource_group]

RoutingStorageContainer(connection_string, name, subscription_id, resource_group, container_name, encoding, file_name_format, batch_frequency_in_seconds, max_chunk_size_in_bytes) ==
    [connection_string |-> connection_string, name |-> name,
     subscription_id |-> subscription_id, resource_group |-> resource_group,
     container_name |-> container_name, encoding |-> encoding,
     file_name_format |-> file_name_format,
     batch_frequency_in_seconds |-> batch_frequency_in_seconds,
     max_chunk_size_in_bytes |-> max_chunk_size_in_bytes]

\* iot_hub_routing_endpoint_create comparing the type as it is given
iot_hub_routing_endpoint_create_exact_type(endpoint_name, endpoint_type, endpoint_resource_group, endpoint_subscription_id, connection_string, container_name, encoding, resource_group_name, batch_frequency, chunk_size_window, file_name_format) ==
    LET got == HubFetch(resource_group_name)
    IN  IF ~got.ok THEN Raise(got.error, got.calls, None)
        ELSE
        LET h == Val(got.resource)
            plain == RoutingEndpoint(connection_string, endpoint_name,
                                     endpoint_subscription_id, endpoint_resource_group)
        IN  IF EventHub = endpoint_type
            THEN Submit(got.calls, got.resource,
                        [h EXCEPT !.properties.routing.endpoints.event_hubs = Append(@, plain)],
                        h.etag)
            ELSE IF ServiceBusQueue = endpoint_type
            THEN Submit(got.calls, got.resource,
                        [h EXCEPT !.properties.routing.endpoints.service_bus_queues =
                            Append(@, plain)],
                        h.etag)
            ELSE IF ServiceBusTopic = endpoint_type
            THEN Submit(got.calls, got.resource,
                        [h EXCEPT !.properties.routing.endpoints.service_bus_topics =
                            Append(@, plain)],
                        h.etag)
            ELSE IF AzureStorageContainer = endpoint_type
            THEN IF ~TruthyStr(container_name)
                 THEN Raise("Container name is required.", got.calls, got.resource)
                 ELSE Submit(got.calls, got.resource,
                             [h EXCEPT !.properties.routing.endpoints.storage_containers =
                                 Append(@, RoutingStorageContainer(
                                     connection_string, endpoint_name,
                                     endpoint_subscription_id, endpoint_resource_group,
                                     Val(container_name),
                                     IF TruthyStr(encoding) THEN Lower(Val(encoding)) ELSE AVRO,
                                     file_name_format, batch_frequency,
                                     chunk_size_window * 1048576))],
                             h.etag)
            ELSE Submit(got.calls, got.resource, h, h.etag)

iot_hub_routing_endpoint_create(endpoint_name, endpoint_type, endpoint_resource_group, endpoint_subscription_id, connection_string, container_name, encoding, resource_group_name, batch_frequency, chunk_size_window, file_name_format) ==
    LET got == HubFetch(resource_group_name)
    IN  IF ~got.ok THEN Raise(got.error, got.calls, None)
        ELSE
        LET h == Val(got.resource)
            plain == RoutingEndpoint(connection_string, endpoint_name,
                                     endpoint_subscription_id, endpoint_resource_group)
        IN  IF EventHub = Lower(endpoint_type)
            THEN Submit(got.calls, got.resource,
                        [h EXCEPT !.properties.routing.endpoints.event_hubs = Append(@, plain)],
                        h.etag)
            ELSE IF ServiceBusQueue = Lower(endpoint_type)
            THEN Submit(got.calls, got.resource,
                        [h EXCEPT !.properties.routing.endpoints.service_bus_queues =
                            Append(@, plain)],
                        h.etag)
            ELSE IF ServiceBusTopic = Lower(endpoint_type)
            THEN Submit(got.calls, got.resource,
                        [h EXCEPT !.properties.routing.endpoints.service_bus_topics =
                            Append(@, plain)],
                        h.etag)
            ELSE IF AzureStorageContainer = Lower(endpoint_type)
            THEN IF ~TruthyStr(container_name)
                 THEN Raise("Container name is required.", got.calls, got.resource)
                 ELSE Submit(got.calls, got.resource,
                             [h EXCEPT !.properties.routing.endpoints.storage_containers =
                                 Append(@, RoutingStorageContainer(
                                     connection_string, endpoint_name,
                                     endpoint_subscription_id, endpoint_resource_group,
                                     Val(container_name),
                                     IF TruthyStr(encoding) THEN Lower(Val(encoding)) ELSE AVRO,
                                     file_name_format, batch_frequency,
                                     chunk_size_window * 1048576))],
                             h.etag)
            ELSE Submit(got.calls, got.resource, h, h.etag)

HasName(entries, endpoint_name) ==
    \E i \in 1..Len(entries) : Lower(entries[i].name) = Lower(endpoint_name)

WithoutName(entries, endpoint_name) ==
    SelectSeq(entries, LAMBDA e : Lower(e.name) # Lower(endpoint_name))

\* DeleteByType with the storage container branch clearing the event hubs too
DeleteByType_clears_more(endpoint_type, endpoints) ==
    IF ~TruthyStr(endpoint_type) THEN endpoints
    ELSE IF ServiceBusQueue = Lower(Val(endpoint_type))
    THEN [endpoints EXCEPT !.service_bus_queues = <<>>]
    ELSE IF ServiceBusTopic = Lower(Val(endpoint_type))
    THEN [endpoints EXCEPT !.service_bus_topics = <<>>]
    ELSE IF AzureStorageContainer = Lower(Val(endpoint_type))
    THEN [endpoints EXCEPT !.storage_containers = <<>>, !.event_hubs = <<>>]
    ELSE IF EventHub = Lower(Val(endpoint_type))
    THEN [endpoints EXCEPT !.event_hubs = <<>>]
    ELSE endpoints

\* the first block of _delete_routing_endpoints: the type given
DeleteByType(endpoint_type, endpoints) ==
    IF ~TruthyStr(endpoint_type) THEN endpoints
    ELSE IF ServiceBusQueue = Lower(Val(endpoint_type))
    THEN [endpoints EXCEPT !.service_bus_queues = <<>>]
    ELSE IF ServiceBusTopic = Lower(Val(endpoint_type))
    THEN [endpoints EXCEPT !.service_bus_topics = <<>>]
    ELSE IF AzureStorageContainer = Lower(Val(endpoint_type))
    THEN [endpoints EXCEPT !.storage_containers = <<>>]
    ELSE IF EventHub = Lower(Val(endpoint_type))
    THEN [endpoints EXCEPT !.event_hubs = <<>>]
    ELSE endpoints

\* DeleteByName taking the name out of every sub-collection that has it
DeleteByName_everywhere(endpoint_name, endpoints) ==
    IF ~TruthyStr(endpoint_name) THEN endpoints
    ELSE [service_bus_queues |-> WithoutName(endpoints.service_bus_queues, Val(endpoint_name)),
          service_bus_topics |-> WithoutName(endpoints.service_bus_topics, Val(endpoint_name)),
          storage_containers |-> WithoutName(endpoints.storage_containers, Val(endpoint_name)),
          event_hubs |-> WithoutName(endpoints.event_hubs, Val(endpoint_name))]

\* the second block of _delete_routing_endpoints: the name given
DeleteByName(endpoint_name, endpoints) ==
    IF ~TruthyStr(endpoint_name) THEN endpoints
    ELSE IF HasName(endpoints.service_bus_queues, Val(endpoint_name))
    THEN [endpoints EXCEPT !.service_bus_queues = WithoutName(@, Val(endpoint_name))]
    ELSE IF HasName(endpoints.service_bus_topics, Val(endpoint_name))
    THEN [endpoints EXCEPT !.service_bus_topics = WithoutName(@, Val(endpoint_name))]
    ELSE IF HasName(endpoints.storage_containers, Val(endpoint_name))
    THEN [endpoints EXCEPT !.storage_containers = WithoutName(@, Val(endpoint_name))]
    ELSE IF HasName(endpoints.event_hubs, Val(endpoint_name))
    THEN [endpoints EXCEPT !.event_hubs = WithoutName(@, Val(endpoint_name))]
    ELSE endpoints

\* DeleteAll leaving the event hubs
DeleteAll_keeps_event_hubs(endpoint_name, endpoint_type, endpoints) ==
    IF ~TruthyStr(endpoint_type) /\ ~TruthyStr(endpoint_name)
    THEN [NoEndpoints EXCEPT !.event_hubs = endpoints.event_hubs]
    ELSE endpoints

\* the third block of _delete_routing_endpoints: neither given
DeleteAll(endpoint_name, endpoint_type, endpoints) ==
    IF ~TruthyStr(endpoint_type) /\ ~TruthyStr(endpoint_name)
    THEN NoEndpoints
    ELSE endpoints

\* _delete_routing_endpoints with the name block ahead of the type block
_delete_routing_endpoints_name_first(endpoint_name, endpoint_type, endpoints) ==
    DeleteAll(endpoint_name, endpoint_type,
              DeleteByType(endpoint_type, DeleteByName(endpoint_name, endpoints)))

_delete_routing_endpoints(endpoint_name, endpoint_type, endpoints) ==
    DeleteAll(endpoint_name, endpoint_type,
              DeleteByName(endpoint_name, DeleteByType(endpoint_type, endpoints)))

\* the entry returned is the first of that name in the first sub-collection,
\* in the order event hubs, queues, topics, storage containers, that has one;
\* kind tells the sub-collection the entry is in
iot_hub_routing_endpoint_show(endpoint_name, resource_group_name) ==
    LET got == HubFetch(resource_group_name)
    IN  IF ~got.ok THEN [returned |-> <<>>] @@ Raise(got.error, got.calls, None)
        ELSE
        LET endpoints == Val(got.resource).properties.routing.endpoints
            hits == SelectSeq(<<"event_hubs", "service_bus_queues", "service_bus_topics",
                                "storage_containers">>,
                              LAMBDA f : HasName(endpoints[f], endpoint_name))
        IN  IF hits = <<>>
            THEN [returned |-> <<>>] @@ Raise("No endpoint found.", got.calls, got.resource)
            ELSE [returned |->
                    <<[kind |-> hits[1],
                       entry |-> SelectSeq(endpoints[hits[1]],
                                           LAMBDA e : Lower(e.name) = Lower(endpoint_name))[1]]>>]
                 @@ Outcome("ok", "", got.calls, got.resource, None, None)

iot_hub_routing_endpoint_delete(endpoint_name, endpoint_type, resource_group_name) ==
    LET got == HubFetch(resource_group_name)
    IN  IF ~got.ok THEN Raise(got.error, got.calls, None)
        ELSE
        LET h == Val(got.resource)
        IN  Submit(got.calls, got.resource,
                   [h EXCEPT !.properties.routing.endpoints =
                       _delete_routing_endpoints(endpoint_name, endpoint_type, @)],
                   h.etag)

(***************************************************************************)
(* iot hub route                                                           *)
(***************************************************************************)
\* str.split() on the endpoint arguments of the model
Split(s) == IF s = "e1 e2" THEN <<"e1", "e2">> ELSE <<s>>

RouteProperties(source, name, endpoint_names, condition, is_enabled) ==
    [source |-> source, name |-> name, endpoint_names |-> endpoint_names,
     condition |-> condition, is_enabled |-> is_enabled]

iot_hub_route_create(route_name, source_type, endpoint_name, enabled, condition, resource_group_name) ==
    LET got == HubFetch(resource_group_name)
    IN  IF ~got.ok THEN Raise(got.error, got.calls, None)
        ELSE
        LET h == Val(got.resource)
        IN  Submit(got.calls, got.resource,
                   [h EXCEPT !.properties.routing.routes =
                       Append(@, RouteProperties(
                           source_type, route_name, Split(endpoint_name),
                           IF condition = None THEN "true" ELSE Val(condition),
                           IF enabled = None THEN TRUE ELSE Val(enabled)))],
                   h.etag)

\* iot_hub_route_delete removing, when a name and a source are given, only
\* the routes that match both
iot_hub_route_delete_matching_both(route_name, source_type, resource_group_name) ==
    LET got == HubFetch(resource_group_name)
    IN  IF ~got.ok THEN Raise(got.error, got.calls, None)
        ELSE
        LET h == Val(got.resource)
            r0 == h.properties.routing.routes
            r1 == IF ~TruthyStr(route_name) /\ ~TruthyStr(source_type) THEN <<>> ELSE r0
            r2 == SelectSeq(r1, LAMBDA route :
                    \/ (TruthyStr(route_name) /\ Lower(route.name) # Lower(Val(route_name)))
                    \/ (TruthyStr(source_type) /\ Lower(route.source) # Lower(Val(source_type))))
        IN  Submit(got.calls, got.resource,
                   [h EXCEPT !.properties.routing.routes = r2], h.etag)

iot_hub_route_delete(route_name, source_type, resource_group_name) ==
    LET got == HubFetch(resource_group_name)
    IN  IF ~got.ok THEN Raise(got.error, got.calls, None)
        ELSE
        LET h == Val(got.resource)
            r0 == h.properties.routing.routes
            r1 == IF ~TruthyStr(route_name) /\ ~TruthyStr(source_type) THEN <<>> ELSE r0
            r2 == IF TruthyStr(route_name)
                  THEN SelectSeq(r1, LAMBDA route : Lower(route.name) # Lower(Val(route_name)))
                  ELSE r1
            r3 == IF TruthyStr(source_type)
                  THEN SelectSeq(r2, LAMBDA route : Lower(route.source) # Lower(Val(source_type)))
                  ELSE r2
        IN  Submit(got.calls, got.resource,
                   [h EXCEPT !.properties.routing.routes = r3], h.etag)

\* iot_hub_route_update with the defaults of iot_hub_route_create for a
\* condition and an enabled flag that are not given
iot_hub_route_update_defaults(route_name, source_type, endpoint_name, enabled, condition, resource_group_name) ==
    LET got == HubFetch(resource_group_name)
    IN  IF ~got.ok THEN Raise(got.error, got.calls, None)
        ELSE
        LET h == Val(got.resource)
            routes == h.properties.routing.routes
            i == FirstIndex([k \in 1..Len(routes) |-> Lower(routes[k].name) = Lower(route_name)])
        IN  IF i = 0 THEN Raise("No route found.", got.calls, got.resource)
            ELSE
            LET updated_route ==
                    [routes[i] EXCEPT
                        !.source = IF source_type = None THEN @ ELSE Val(source_type),
                        !.endpoint_names =
                            IF endpoint_name = None THEN @ ELSE Split(Val(endpoint_name)),
                        !.condition = IF condition = None THEN "true" ELSE Val(condition),
                        !.is_enabled = IF enabled = None THEN TRUE ELSE Val(enabled)]
            IN  Submit(got.calls, got.resource,
                       [h EXCEPT !.properties.routing.routes[i] = updated_route], h.etag)

iot_hub_route_update(route_name, source_type, endpoint_name, enabled, condition, resource_group_name) ==
    LET got == HubFetch(resource_group_name)
    IN  IF ~got.ok THEN Raise(got.error, got.calls, None)
        ELSE
        LET h == Val(got.resource)
            routes == h.properties.routing.routes
            i == FirstIndex([k \in 1..Len(routes) |-> Lower(routes[k].name) = Lower(route_name)])
        IN  IF i = 0 THEN Raise("No route found.", got.calls, got.resource)
            ELSE
            LET updated_route ==
                    [routes[i] EXCEPT
                        !.source = IF source_type = None THEN @ ELSE Val(source_type),
                        !.endpoint_names =
                            IF endpoint_name = None THEN @ ELSE Split(Val(endpoint_name)),
                        !.condition = IF condition = None THEN @ ELSE Val(condition),
                        !.is_enabled = IF enabled = None THEN @ ELSE Val(enabled)]
            IN  Submit(got.calls, got.resource,
                       [h EXCEPT !.properties.routing.routes[i] = updated_route], h.etag)

(***************************************************************************)
(* iot hub message-enrichment                                              *)
(***************************************************************************)
EnrichmentProperties(key, value, endpoint_names) ==
    [key |-> key, value |-> value, endpoint_names |-> endpoint_names]

\* iterating over enrichments that are None raises a TypeError
Crash(error, calls, fetched) == Outcome("TypeError", error, calls, fetched, None, None)

iot_message_enrichment_create(key, value, endpoints, resource_group_name) ==
    LET got == HubFetch(resource_group_name)
    IN  IF ~got.ok THEN Raise(got.error, got.calls, None)
        ELSE
        LET h == Val(got.resource)
            enrichments == IF h.properties.routing.enrichments = None
                           THEN <<>> ELSE Val(h.properties.routing.enrichments)
        IN  Submit(got.calls, got.resource,
                   [h EXCEPT !.properties.routing.enrichments =
                       Some(Append(enrichments, EnrichmentProperties(key, value, endpoints)))],
                   h.etag)

iot_message_enrichment_update(key, value, endpoints, resource_group_name) ==
    LET got == HubFetch(resource_group_name)
    IN  IF ~got.ok THEN Raise(got.error, got.calls, None)
        ELSE
        LET h == Val(got.resource)
        IN  IF h.properties.routing.enrichments = None
            THEN Crash("'NoneType' object is not iterable", got.calls, got.resource)
            ELSE
            LET enrichments == Val(h.properties.routing.enrichments)
                i == FirstIndex([k \in 1..Len(enrichments) |-> enrichments[k].key = key])
            IN  IF i = 0
                THEN Raise("No message enrichment with that key exists", got.calls, got.resource)
                ELSE Submit(got.calls, got.resource,
                            [h EXCEPT !.properties.routing.enrichments =
                                Some([enrichments EXCEPT
                                         ![i] = EnrichmentProperties(key, value, endpoints)])],
                            h.etag)

\* list.remove(to_remove) takes out the first entry equal to it
RemoveAt(seq, i) == SubSeq(seq, 1, i - 1) \o SubSeq(seq, i + 1, Len(seq))

iot_message_enrichment_delete(key, resource_group_name) ==
    LET got == HubFetch(resource_group_name)
    IN  IF ~got.ok THEN Raise(got.error, got.calls, None)
        ELSE
        LET h == Val(got.resource)
        IN  IF h.properties.routing.enrichments = None
            THEN Crash("'NoneType' object is not iterable", got.calls, got.resource)
            ELSE
            LET enrichments == Val(h.properties.routing.enrichments)
                i == FirstIndex([k \in 1..Len(enrichments) |-> enrichments[k].key = key])
            IN  IF i = 0
                THEN Raise("No message enrichment with that key exists", got.calls, got.resource)
                ELSE Submit(got.calls, got.resource,
                            [h EXCEPT !.properties.routing.enrichments =
                                Some(RemoveAt(enrichments,
                                              FirstIndex([k \in 1..Len(enrichments) |->
                                                             enrichments[k] = enrichments[i]])))],
                            h.etag)

(***************************************************************************)
(* iot hub update: the generic update reads the hub with iot_hub_get,      *)
(* applies update_iot_hub_custom and hands the result to iot_hub_update.   *)
(***************************************************************************)
\* the instance after the update, or the error raised
update_iot_hub_custom(instance, a) ==
    LET i1 == IF a.sku # None THEN [instance EXCEPT !.sku.name = Val(a.sku)] ELSE instance
        i2 == IF a.unit # None THEN [i1 EXCEPT !.sku.capacity = Val(a.unit)] ELSE i1
        i3 == IF a.retention_day # None
              THEN [i2 EXCEPT !.properties.event_hub_endpoints.events.retention_time_in_days =
                                  Val(a.retention_day)]
              ELSE i2
        i4 == IF a.c2d_ttl # None
              THEN [i3 EXCEPT !.properties.cloud_to_device.default_ttl_as_iso8601 =
                                  Hours(Val(a.c2d_ttl))]
              ELSE i3
        i5 == IF a.c2d_max_delivery_count # None
              THEN [i4 EXCEPT !.properties.cloud_to_device.max_delivery_count =
                                  Val(a.c2d_max_delivery_count)]
              ELSE i4
        i6 == IF a.feedback_lock_duration # None
              THEN [i5 EXCEPT !.properties.cloud_to_device.feedback.lock_duration_as_iso8601 =
                                  Seconds(Val(a.feedback_lock_duration))]
              ELSE i5
        i7 == IF a.feedback_ttl # None
              THEN [i6 EXCEPT !.properties.cloud_to_device.feedback.ttl_as_iso8601 =
                                  Hours(Val(a.feedback_ttl))]
              ELSE i6
        i8 == IF a.feedback_max_delivery_count # None
              THEN [i7 EXCEPT !.properties.cloud_to_device.feedback.max_delivery_count =
                                  Val(a.feedback_max_delivery_count)]
              ELSE i7
        i9 == IF a.enable_fileupload_notifications # None
              THEN [i8 EXCEPT !.properties.enable_file_upload_notifications =
                                  Val(a.enable_fileupload_notifications)]
              ELSE i8
        i10 == IF a.fileupload_notification_max_delivery_count # None
               THEN [i9 EXCEPT !.properties.messaging_endpoints.fileNotifications.max_delivery_count =
                                   Val(a.fileupload_notification_max_delivery_count)]
               ELSE i9
        i11 == IF a.fileupload_notification_ttl # None
               THEN [i10 EXCEPT !.properties.messaging_endpoints.fileNotifications.ttl_as_iso8601 =
                                    Hours(Val(a.fileupload_notification_ttl))]
               ELSE i10
        both == /\ a.fileupload_storage_connectionstring # None
                /\ a.fileupload_storage_container_name # None
        i12 == IF both
               THEN [i11 EXCEPT !.properties.storage_endpoints.default.connection_string =
                                    Val(a.fileupload_storage_connectionstring),
                                !.properties.storage_endpoints.default.container_name =
                                    Val(a.fileupload_storage_container_name)]
               ELSE i11
        i13 == IF a.fileupload_sas_ttl # None
               THEN [i12 EXCEPT !.properties.storage_endpoints.default.sas_ttl_as_iso8601 =
                                    Hours(Val(a.fileupload_sas_ttl))]
               ELSE i12
    IN  IF ~both /\ a.fileupload_storage_connectionstring # None
        THEN [ok |-> FALSE, error |-> "Please mention storage container name.", instance |-> instance]
        ELSE IF ~both /\ a.fileupload_storage_container_name # None
        THEN [ok |-> FALSE, error |-> "Please mention storage connection string.", instance |-> instance]
        ELSE [ok |-> TRUE, error |-> "", instance |-> i13]

iot_hub_update(calls, fetched, parameters, resource_group_name) ==
    LET ens == _ensure_resource_group_name(resource_group_name)
    IN  IF ~ens.ok THEN Raise(ens.error, calls \o ens.calls, fetched)
        ELSE Submit(calls \o ens.calls, fetched, parameters, parameters.etag)

GenericHubUpdate(a, resource_group_name) ==
    LET got == iot_hub_get(resource_group_name)
    IN  IF ~got.ok THEN Raise(got.error, got.calls, None)
        ELSE
        LET updated == update_iot_hub_custom(Val(got.resource), a)
        IN  IF ~updated.ok THEN Raise(updated.error, got.calls, got.resource)
            ELSE iot_hub_update(got.calls, got.resource, updated.instance, resource_group_name)

(***************************************************************************)
(* DPS.  The service names a linked hub after the host of its connection   *)
(* string; the hub that a command appends has no name yet.                 *)
(***************************************************************************)
NamedByService(h) ==
    IF h.name = None THEN [h EXCEPT !.name = Some(h.connection_string.HostName)] ELSE h

DpsStored(stored, description) ==
    [description EXCEPT
        !.etag = Some(NextEtag(stored)),
        !.properties.iot_hubs =
            [i \in 1..Len(description.properties.iot_hubs) |->
                NamedByService(description.properties.iot_hubs[i])]]

DpsAfter(o) ==
    IF o.written # None /\ Accepts(dps, o.if_match)
    THEN Some(DpsStored(dps, Val(o.written)))
    ELSE dps

\* ProvisioningServiceDescription(location, properties, sku) with
\* IotDpsPropertiesDescription(iot_hubs, allocation_policy, authorization_policies)
ProvisioningServiceDescription(location, iot_hubs, allocation_policy, authorization_policies, sku) ==
    [etag |-> None, tags |-> None, location |-> location, sku |-> sku,
     properties |-> [iot_hubs |-> iot_hubs, allocation_policy |-> allocation_policy,
                     authorization_policies |-> authorization_policies]]

\* IotHubDefinitionDescription: the name is read-only and stays None
IotHubDefinitionDescription(connection_string, location, apply_allocation_policy, allocation_weight) ==
    [name |-> None, connection_string |-> connection_string, location |-> location,
     apply_allocation_policy |-> apply_allocation_policy,
     allocation_weight |-> allocation_weight]

\* what the subscription lists to a DPS command: nothing when there is no DPS
DpsListed == IF dps = None THEN Some(<<>>) ELSE listing

_get_iot_dps_by_name ==
    LET scanned == _get_by_name(DpsListed, ResourceName, "DPS")
    IN  IF scanned.ok THEN Found(scanned.calls, dps) ELSE NotFound(scanned.calls, scanned.error)

\* with a resource group the service's get fails by itself for a missing DPS
iot_dps_get(resource_group_name) ==
    IF resource_group_name = None
    THEN _get_iot_dps_by_name
    ELSE IF dps = None
         THEN NotFound(<<"get">>, "ResourceNotFound")
         ELSE Found(<<"get">>, dps)

\* iot_dps_get, then list_keys: the policies with their keys
iot_dps_access_policy_list(resource_group_name) ==
    LET got == iot_dps_get(resource_group_name)
    IN  IF ~got.ok THEN got
        ELSE Found(Append(got.calls, "list_keys"),
                   Val(got.resource).properties.authorization_policies)

\* DpsSend reading the result back whether or not no_wait is set
DpsSend_always_reads(calls, fetched, description, no_wait, read_back) ==
    LET sent == Submit(calls, fetched, description, None)
    IN  [sent EXCEPT !.calls = @ \o (IF no_wait THEN <<>> ELSE <<"wait">>) \o read_back]

\* the end of every DPS sub-collection command: send the description, and
\* unless no_wait is set wait for it and read the result back
DpsSend(calls, fetched, description, no_wait, read_back) ==
    LET sent == Submit(calls, fetched, description, None)
    IN  IF no_wait THEN sent ELSE [sent EXCEPT !.calls = @ \o <<"wait">> \o read_back]

iot_dps_access_policy_create(resource_group_name, access_policy_name, rights, primary_key, secondary_key, no_wait) ==
    LET listed == iot_dps_access_policy_list(resource_group_name)
    IN  IF ~listed.ok THEN Raise(listed.error, listed.calls, None)
        ELSE
        IF _is_policy_existed(listed.resource, access_policy_name)
        THEN Raise("Access policy already existed.", listed.calls, dps)
        ELSE
        LET access_policy_rights == _convert_rights_to_access_rights(rights)
            dps_access_policies ==
                Append(listed.resource,
                       AuthorizationRule(access_policy_name, access_policy_rights,
                                         primary_key, secondary_key))
            got == iot_dps_get(resource_group_name)
            d == Val(got.resource)
        IN  DpsSend(listed.calls \o got.calls, got.resource,
                    ProvisioningServiceDescription(
                        d.location, d.properties.iot_hubs, d.properties.allocation_policy,
                        dps_access_policies, d.sku),
                    no_wait, <<"get", "list_keys_for_key_name">>)

iot_dps_access_policy_update(resource_group_name, access_policy_name, primary_key, secondary_key, rights, no_wait) ==
    LET listed == iot_dps_access_policy_list(resource_group_name)
    IN  IF ~listed.ok THEN Raise(listed.error, listed.calls, None)
        ELSE
        IF ~_is_policy_existed(listed.resource, access_policy_name)
        THEN Raise("Access policy doesn't exist.", listed.calls, dps)
        ELSE
        LET dps_access_policies ==
                [i \in 1..Len(listed.resource) |->
                    LET policy == listed.resource[i]
                    IN  IF policy.key_name = access_policy_name
                        THEN [policy EXCEPT
                                !.primary_key = IF primary_key # None THEN primary_key ELSE @,
                                !.secondary_key = IF secondary_key # None THEN secondary_key ELSE @,
                                !.rights = IF rights # None
                                           THEN _convert_rights_to_access_rights(Val(rights))
                                           ELSE @]
                        ELSE policy]
            got == iot_dps_get(resource_group_name)
            d == Val(got.resource)
        IN  DpsSend(listed.calls \o got.calls, got.resource,
                    ProvisioningServiceDescription(
                        d.location, d.properties.iot_hubs, d.properties.allocation_policy,
                        dps_access_policies, d.sku),
                    no_wait, <<"get", "list_keys_for_key_name">>)

iot_dps_access_policy_delete(resource_group_name, access_policy_name, no_wait) ==
    LET listed == iot_dps_access_policy_list(resource_group_name)
    IN  IF ~listed.ok THEN Raise(listed.error, listed.calls, None)
        ELSE
        IF ~_is_policy_existed(listed.resource, access_policy_name)
        THEN Raise("Access policy doesn't existed.", listed.calls, dps)
        ELSE
        LET updated_policies ==
                SelectSeq(listed.resource,
                       LAMBDA p : Lower(p.key_name) # Lower(access_policy_name))
            got == iot_dps_get(resource_group_name)
            d == Val(got.resource)
        IN  DpsSend(listed.calls \o got.calls, got.resource,
                    ProvisioningServiceDescription(
                        d.location, d.properties.iot_hubs, d.properties.allocation_policy,
                        updated_policies, d.sku),
                    no_wait, <<"get", "list_keys">>)

(***************************************************************************)
(* DPS linked hubs                                                         *)
(***************************************************************************)
_is_linked_hub_existed(hubs, hub_name) ==
    LET hub_set == {Lower(Val(hubs[i].name)) : i \in 1..Len(hubs)}
    IN  Lower(hub_name) \in hub_set

\* iot_dps_get, then the hubs of the DPS it returned
iot_dps_linked_hub_list(resource_group_name) ==
    LET got == iot_dps_get(resource_group_name)
    IN  IF ~got.ok THEN got
        ELSE Found(got.calls, Val(got.resource).properties.iot_hubs)

iot_dps_linked_hub_create(resource_group_name, connection_string, location, apply_allocation_policy, allocation_weight, no_wait) ==
    LET listed == iot_dps_linked_hub_list(resource_group_name)
    IN  IF ~listed.ok THEN Raise(listed.error, listed.calls, None)
        ELSE
        LET dps_linked_hubs ==
                Append(listed.resource,
                       IotHubDefinitionDescription(connection_string, location,
                                                   apply_allocation_policy, allocation_weight))
            got == iot_dps_get(resource_group_name)
            d == Val(got.resource)
        IN  DpsSend(listed.calls \o got.calls, got.resource,
                    ProvisioningServiceDescription(
                        d.location, dps_linked_hubs, d.properties.allocation_policy,
                        d.properties.authorization_policies, d.sku),
                    no_wait, <<"get">>)

\* the read back after the write is iot_dps_linked_hub_get, which looks the
\* hub up by its exact name and raises when there is none
iot_dps_linked_hub_update(resource_group_name, linked_hub, apply_allocation_policy, allocation_weight, no_wait) ==
    LET listed == iot_dps_linked_hub_list(resource_group_name)
    IN  IF ~listed.ok THEN Raise(listed.error, listed.calls, None)
        ELSE
        IF ~_is_linked_hub_existed(listed.resource, linked_hub)
        THEN Raise("Access policy doesn't existed.", listed.calls, dps)
        ELSE
        LET dps_linked_hubs ==
                [i \in 1..Len(listed.resource) |->
                    LET h == listed.resource[i]
                    IN  IF h.name = Some(linked_hub)
                        THEN [h EXCEPT
                                !.apply_allocation_policy =
                                    IF apply_allocation_policy # None
                                    THEN apply_allocation_policy ELSE @,
                                !.allocation_weight =
                                    IF allocation_weight # None
                                    THEN allocation_weight ELSE @]
                        ELSE h]
            got == iot_dps_get(resource_group_name)
            d == Val(got.resource)
            sent == DpsSend(listed.calls \o got.calls, got.resource,
                            ProvisioningServiceDescription(
                                d.location, dps_linked_hubs, d.properties.allocation_policy,
                                d.properties.authorization_policies, d.sku),
                            no_wait, <<"get">>)
        IN  IF ~no_wait /\ ~(\E i \in 1..Len(dps_linked_hubs) : dps_linked_hubs[i].name = Some(linked_hub))
            THEN [sent EXCEPT !.result = "CLIError", !.error = "Linked hub does not exist."]
            ELSE sent

\* iot_dps_linked_hub_delete keeping the hubs whose name is not exactly the
\* one given
iot_dps_linked_hub_delete_exact(resource_group_name, linked_hub, no_wait) ==
    LET listed == iot_dps_linked_hub_list(resource_group_name)
    IN  IF ~listed.ok THEN Raise(listed.error, listed.calls, None)
        ELSE
        IF ~_is_linked_hub_existed(listed.resource, linked_hub)
        THEN Raise("Linked hub doesn't existed.", listed.calls, dps)
        ELSE
        LET updated_hub ==
                SelectSeq(listed.resource, LAMBDA p : Val(p.name) # linked_hub)
            got == iot_dps_get(resource_group_name)
            d == Val(got.resource)
        IN  DpsSend(listed.calls \o got.calls, got.resource,
                    ProvisioningServiceDescription(
                        d.location, updated_hub, d.properties.allocation_policy,
                        d.properties.authorization_policies, d.sku),
                    no_wait, <<"get">>)

iot_dps_linked_hub_delete(resource_group_name, linked_hub, no_wait) ==
    LET listed == iot_dps_linked_hub_list(resource_group_name)
    IN  IF ~listed.ok THEN Raise(listed.error, listed.calls, None)
        ELSE
        IF ~_is_linked_hub_existed(listed.resource, linked_hub)
        THEN Raise("Linked hub doesn't existed.", listed.calls, dps)
        ELSE
        LET updated_hub ==
                SelectSeq(listed.resource, LAMBDA p : Lower(Val(p.name)) # Lower(linked_hub))
            got == iot_dps_get(resource_group_name)
            d == Val(got.resource)
        IN  DpsSend(listed.calls \o got.calls, got.resource,
                    ProvisioningServiceDescription(
                        d.location, updated_hub, d.properties.allocation_policy,
                        d.properties.authorization_policies, d.sku),
                    no_wait, <<"get">>)

\* iot dps update: the generic update sends the parameters it is given
iot_dps_update(calls, fetched, parameters) == Submit(calls, fetched, parameters, None)

GenericDpsUpdate(tags, resource_group_name) ==
    LET got == iot_dps_get(resource_group_name)
    IN  IF ~got.ok THEN Raise(got.error, got.calls, None)
        ELSE iot_dps_update(got.calls, got.resource, [Val(got.resource) EXCEPT !.tags = tags])

(***************************************************************************)
(* The resources a run starts from: no hub or a hub in use, and a DPS in   *)
(* use.  A resource in use has the entries n1 and n3 in its                *)
(* sub-collections, and no name twice among its endpoints; the commands    *)
(* are run with the names n1 (present), N1 (present but for its case) and  *)
(* n2 (absent).                                                            *)
(***************************************************************************)
FreshHub == HubStored(None, DefaultHubDescription("westus", FALSE, None, None))

UsedHub ==
    [FreshHub EXCEPT
        !.properties.authorization_policies =
            <<AuthorizationRule("n1", {"RegistryRead"}, Some("k1"), Some("k2")),
              AuthorizationRule("n3", {"DeviceConnect"}, Some("k5"), Some("k6"))>>,
        !.properties.routing =
            [endpoints |->
                [service_bus_queues |-> <<RoutingEndpoint("cs", "n3", "sub", "erg")>>,
                 service_bus_topics |-> <<>>,
                 storage_containers |->
                    <<RoutingStorageContainer("cs", "n4", "sub", "erg", "c", AVRO,
                                              "{iothub}/{partition}/{YYYY}/{MM}/{DD}/{HH}/{mm}",
                                              300, 300 * 1048576)>>,
                 event_hubs |-> <<RoutingEndpoint("cs", "n1", "sub", "erg")>>],
             routes |-> <<RouteProperties("DeviceMessages", "n1", <<"e1">>, "true", TRUE),
                          RouteProperties("TwinChangeEvents", "n3", <<"e1">>, "c1", TRUE)>>,
             enrichments |-> Some(<<EnrichmentProperties("n1", "v1", <<"e1">>),
                                    EnrichmentProperties("n3", "v1", <<"e1">>)>>)]]

LinkedHub(name, apply_allocation_policy, allocation_weight) ==
    [name |-> Some(name), connection_string |-> [HostName |-> name], location |-> "westus",
     apply_allocation_policy |-> apply_allocation_policy,
     allocation_weight |-> allocation_weight]

UsedDps ==
    [etag |-> Some(1), tags |-> Some("t1"), location |-> "westus",
     sku |-> [name |-> "S1", capacity |-> 1],
     properties |->
        [iot_hubs |-> <<LinkedHub("n1", Some(TRUE), Some(1)),
                        LinkedHub("n3", Some(TRUE), Some(3))>>,
         allocation_policy |-> "Hashed",
         authorization_policies |->
            <<AuthorizationRule("n1", {"ServiceConfig"}, Some("k1"), Some("k2")),
              AuthorizationRule("n3", {"EnrollmentRead"}, Some("k5"), Some("k6"))>>]]

NoCommand == [op |-> "none", args |-> <<>>] @@ Outcome("ok", "", <<>>, None, None, None)

\* the two callers whose commands may overlap
Actors == {"a", "b"}

\* a caller that has no command under way
Idle == [phase |-> "idle", answer |-> "none", calls |-> <<>>, cmd |-> NoCommand]

NoRace == [a \in Actors |-> Idle]

\* no certificate on the hub and none on the DPS
NoCerts == [hub |-> <<>>, dps |-> <<>>]

\* the subscription lists one resource, the one of the model
OneListed == Some(<<"n1">>)

Init ==
    /\ hub \in {None, Some(UsedHub)}
    /\ dps = Some(UsedDps)
    /\ last = NoCommand
    /\ cmds = 0
    /\ race = NoRace
    /\ certs = NoCerts
    /\ listing = OneListed

(***************************************************************************)
(* The commands.  One command runs from its first statement to its return  *)
(* or its exception; nothing else touches the resources in between.  Each  *)
(* command is counted, and no command starts once MaxCmds have run.        *)
(***************************************************************************)
HubCommand(op, args, o) ==
    /\ cmds' = cmds + 1
    /\ last' = [op |-> op, args |-> args] @@ o
    /\ hub' = HubAfter(o)
    /\ UNCHANGED <<dps, race, certs, listing>>

DpsCommand(op, args, o) ==
    /\ cmds' = cmds + 1
    /\ last' = [op |-> op, args |-> args] @@ o
    /\ dps' = DpsAfter(o)
    /\ UNCHANGED <<hub, race, certs, listing>>

HubCreate ==
    /\ cmds < MaxCmds
    /\ \E location \in {None, Some("westus")}, enable \in BOOLEAN,
       connectionstring \in {None, Some("cs")}, container \in {None, Some("c")} :
        HubCommand("iot_hub_create",
                   [location |-> location, enable_fileupload_notifications |-> enable,
                    fileupload_storage_connectionstring |-> connectionstring,
                    fileupload_storage_container_name |-> container],
                   iot_hub_create(location, enable, connectionstring, container))

\* iot hub show
HubGet ==
    /\ cmds < MaxCmds
    /\ \E rg \in {None, Some("rg"), Some("rg0")} :
        LET got == iot_hub_get(rg)
        IN  HubCommand("iot_hub_get", [resource_group_name |-> rg],
                       Outcome(IF got.ok THEN "ok" ELSE "CLIError", got.error, got.calls,
                               got.resource, None, None))

HubPolicyCreate ==
    /\ cmds < MaxCmds
    /\ \E name \in Names, rg \in ResourceGroups,
       permissions \in {<<"registryread">>, <<"serviceconnect", "registryread", "serviceconnect">>} :
        HubCommand("iot_hub_policy_create",
                   [policy_name |-> name, permissions |-> permissions],
                   iot_hub_policy_create(name, permissions, rg))

HubPolicyDelete ==
    /\ cmds < MaxCmds
    /\ \E name \in Names, rg \in ResourceGroups :
        HubCommand("iot_hub_policy_delete", [policy_name |-> name],
                   iot_hub_policy_delete(name, rg))

HubPolicyKeyRenew ==
    /\ cmds < MaxCmds
    /\ \E name \in Names, rg \in ResourceGroups, no_wait \in BOOLEAN,
       renew \in ({RenewPrimary, RenewSecondary} \X {"k3", "k4"}) \cup {<<RenewSwap, "k3">>} :
        HubCommand("iot_hub_policy_key_renew",
                   [policy_name |-> name, regenerate_key |-> renew[1], new_key |-> renew[2],
                    no_wait |-> no_wait],
                   iot_hub_policy_key_renew(name, renew[1], renew[2], rg, no_wait))

HubShowConnectionString ==
    /\ cmds < MaxCmds
    /\ \E name \in Names, rg \in ResourceGroups, key_type \in {"primary", "secondary"},
       show_all \in BOOLEAN :
        HubCommand("iot_hub_show_connection_string",
                   [policy_name |-> name, key_type |-> key_type, show_all |-> show_all],
                   iot_hub_show_connection_string(rg, name, key_type, show_all))

HubManualFailover ==
    /\ cmds < MaxCmds
    /\ \E rg \in ResourceGroups, no_wait \in BOOLEAN :
        HubCommand("iot_hub_manual_failover",
                   [failover_region |-> "eastus", no_wait |-> no_wait],
                   iot_hub_manual_failover("eastus", rg, no_wait))

EndpointTypes == {EventHub, "EventHub", ServiceBusQueue, ServiceBusTopic, AzureStorageContainer}

RoutingEndpointCreate ==
    /\ cmds < MaxCmds
    /\ \E name \in Names, rg \in ResourceGroups,
       kind \in ((EndpointTypes \ {AzureStorageContainer}) \X {None})
                \cup ({AzureStorageContainer} \X {None, Some("c")}) :
        HubCommand("iot_hub_routing_endpoint_create",
                   [endpoint_name |-> name, endpoint_type |-> kind[1],
                    container_name |-> kind[2]],
                   iot_hub_routing_endpoint_create(
                       name, kind[1], "erg", "sub", "cs", kind[2], None, rg, 300, 300,
                       "{iothub}/{partition}/{YYYY}/{MM}/{DD}/{HH}/{mm}"))

RoutingEndpointShow ==
    /\ cmds < MaxCmds
    /\ \E name \in Names, rg \in ResourceGroups :
        HubCommand("iot_hub_routing_endpoint_show", [endpoint_name |-> name],
                   iot_hub_routing_endpoint_show(name, rg))

RoutingEndpointDelete ==
    /\ cmds < MaxCmds
    /\ \E name \in {None} \cup {Some(n) : n \in Names}, rg \in ResourceGroups,
       type \in {None} \cup {Some(t) : t \in EndpointTypes} :
        HubCommand("iot_hub_routing_endpoint_delete",
                   [endpoint_name |-> name, endpoint_type |-> type],
                   iot_hub_routing_endpoint_delete(name, type, rg))

RouteCreate ==
    /\ cmds < MaxCmds
    /\ \E name \in Names, rg \in ResourceGroups,
       source \in {"DeviceMessages", "TwinChangeEvents"},
       enabled \in {None, Some(FALSE)}, condition \in {None, Some("c1")} :
        HubCommand("iot_hub_route_create",
                   [route_name |-> name, source_type |-> source, endpoint_name |-> "e1",
                    enabled |-> enabled, condition |-> condition],
                   iot_hub_route_create(name, source, "e1", enabled, condition, rg))

RouteDelete ==
    /\ cmds < MaxCmds
    /\ \E name \in {None} \cup {Some(n) : n \in Names}, rg \in ResourceGroups,
       source \in {None, Some("devicemessages"), Some("TwinChangeEvents")} :
        HubCommand("iot_hub_route_delete",
                   [route_name |-> name, source_type |-> source],
                   iot_hub_route_delete(name, source, rg))

RouteUpdate ==
    /\ cmds < MaxCmds
    /\ \E name \in Names, rg \in ResourceGroups,
       source \in {None, Some("TwinChangeEvents")}, endpoint \in {None, Some("e1 e2")},
       enabled \in {None, Some(FALSE)}, condition \in {None, Some("c2")} :
        HubCommand("iot_hub_route_update",
                   [route_name |-> name, source_type |-> source, endpoint_name |-> endpoint,
                    enabled |-> enabled, condition |-> condition],
                   iot_hub_route_update(name, source, endpoint, enabled, condition, rg))

EnrichmentCreate ==
    /\ cmds < MaxCmds
    /\ \E key \in Names, rg \in ResourceGroups :
        HubCommand("iot_message_enrichment_create",
                   [key |-> key, value |-> "v1", endpoints |-> <<"e1">>],
                   iot_message_enrichment_create(key, "v1", <<"e1">>, rg))

EnrichmentUpdate ==
    /\ cmds < MaxCmds
    /\ \E key \in Names, rg \in ResourceGroups :
        HubCommand("iot_message_enrichment_update",
                   [key |-> key, value |-> "v2", endpoints |-> <<"e2">>],
                   iot_message_enrichment_update(key, "v2", <<"e2">>, rg))

EnrichmentDelete ==
    /\ cmds < MaxCmds
    /\ \E key \in Names, rg \in ResourceGroups :
        HubCommand("iot_message_enrichment_delete", [key |-> key],
                   iot_message_enrichment_delete(key, rg))

\* the values an iot hub update is given, one per argument
UpdateValues ==
    [sku |-> Some("S1"), unit |-> Some(2), retention_day |-> Some(3), c2d_ttl |-> Some(4),
     c2d_max_delivery_count |-> Some(20), feedback_lock_duration |-> Some(6),
     feedback_ttl |-> Some(7), feedback_max_delivery_count |-> Some(30),
     enable_fileupload_notifications |-> Some(TRUE),
     fileupload_notification_max_delivery_count |-> Some(40),
     fileupload_notification_ttl |-> Some(8),
     fileupload_storage_connectionstring |-> Some("cs2"),
     fileupload_storage_container_name |-> Some("c2"),
     fileupload_sas_ttl |-> Some(9)]

UpdateArgNames == DOMAIN UpdateValues

\* no argument, one argument, the two storage arguments, or all of them
SuppliedSets ==
    {{}} \cup {{f} : f \in UpdateArgNames}
         \cup {{"fileupload_storage_connectionstring", "fileupload_storage_container_name"},
               UpdateArgNames}

HubUpdate ==
    /\ cmds < MaxCmds
    /\ \E supplied \in SuppliedSets, rg \in ResourceGroups :
        LET a == [f \in UpdateArgNames |-> IF f \in supplied THEN UpdateValues[f] ELSE None]
        IN  HubCommand("iot_hub_update", a, GenericHubUpdate(a, rg))

DpsAccessPolicyCreate ==
    /\ cmds < MaxCmds
    /\ \E name \in Names, rg \in ResourceGroups, no_wait \in BOOLEAN,
       primary_key \in {None, Some("k3")}, secondary_key \in {None, Some("k4")} :
        DpsCommand("iot_dps_access_policy_create",
                   [access_policy_name |-> name, rights |-> <<"EnrollmentWrite">>,
                    primary_key |-> primary_key, secondary_key |-> secondary_key,
                    no_wait |-> no_wait],
                   iot_dps_access_policy_create(rg, name, <<"EnrollmentWrite">>,
                                                primary_key, secondary_key, no_wait))

DpsAccessPolicyUpdate ==
    /\ cmds < MaxCmds
    /\ \E name \in Names, rg \in ResourceGroups, no_wait \in BOOLEAN,
       primary_key \in {None, Some("k3")}, secondary_key \in {None, Some("k4")},
       rights \in {None, Some(<<"DeviceConnect", "DeviceConnect">>)} :
        DpsCommand("iot_dps_access_policy_update",
                   [access_policy_name |-> name, primary_key |-> primary_key,
                    secondary_key |-> secondary_key, rights |-> rights, no_wait |-> no_wait],
                   iot_dps_access_policy_update(rg, name, primary_key, secondary_key,
                                                rights, no_wait))

DpsAccessPolicyDelete ==
    /\ cmds < MaxCmds
    /\ \E name \in Names, rg \in ResourceGroups, no_wait \in BOOLEAN :
        DpsCommand("iot_dps_access_policy_delete",
                   [access_policy_name |-> name, no_wait |-> no_wait],
                   iot_dps_access_policy_delete(rg, name, no_wait))

DpsLinkedHubCreate ==
    /\ cmds < MaxCmds
    /\ \E name \in Names, rg \in ResourceGroups, no_wait \in BOOLEAN,
       apply \in {None, Some(TRUE)}, weight \in {None, Some(1)} :
        DpsCommand("iot_dps_linked_hub_create",
                   [connection_string |-> [HostName |-> name], location |-> "westus",
                    apply_allocation_policy |-> apply, allocation_weight |-> weight,
                    no_wait |-> no_wait],
                   iot_dps_linked_hub_create(rg, [HostName |-> name], "westus",
                                             apply, weight, no_wait))

DpsLinkedHubUpdate ==
    /\ cmds < MaxCmds
    /\ \E name \in Names, rg \in ResourceGroups, no_wait \in BOOLEAN,
       apply \in {None, Some(FALSE)}, weight \in {None, Some(2)} :
        DpsCommand("iot_dps_linked_hub_update",
                   [linked_hub |-> name, apply_allocation_policy |-> apply,
                    allocation_weight |-> weight, no_wait |-> no_wait],
                   iot_dps_linked_hub_update(rg, name, apply, weight, no_wait))

DpsLinkedHubDelete ==
    /\ cmds < MaxCmds
    /\ \E name \in Names, rg \in ResourceGroups, no_wait \in BOOLEAN :
        DpsCommand("iot_dps_linked_hub_delete",
                   [linked_hub |-> name, no_wait |-> no_wait],
                   iot_dps_linked_hub_delete(rg, name, no_wait))

DpsUpdate ==
    /\ cmds < MaxCmds
    /\ \E tags \in {None, Some("t2")}, rg \in ResourceGroups :
        DpsCommand("iot_dps_update", [tags |-> tags], GenericDpsUpdate(tags, rg))

Next ==
    \/ HubCreate
    \/ HubGet
    \/ HubPolicyCreate
    \/ HubPolicyDelete
    \/ HubPolicyKeyRenew
    \/ HubManualFailover
    \/ HubShowConnectionString
    \/ RoutingEndpointShow
    \/ RoutingEndpointCreate
    \/ RoutingEndpointDelete
    \/ RouteCreate
    \/ RouteDelete
    \/ RouteUpdate
    \/ EnrichmentCreate
    \/ EnrichmentUpdate
    \/ EnrichmentDelete
    \/ HubUpdate
    \/ DpsAccessPolicyCreate
    \/ DpsAccessPolicyUpdate
    \/ DpsAccessPolicyDelete
    \/ DpsLinkedHubCreate
    \/ DpsLinkedHubUpdate
    \/ DpsLinkedHubDelete
    \/ DpsUpdate

Spec == Init /\ [][Next]_vars

(***************************************************************************)
(* Two callers at once.  A command reads its resource, changes it in       *)
(* memory and sends it; between the read and the send the other caller's   *)
(* command may read and send too.  Begin is a command up to its            *)
(* create_or_update, computed on the resource as the service holds it at   *)
(* that moment; Send is the create_or_update, which the service accepts    *)
(* when the IF-MATCH header is absent or equals the tag it holds           *)
(* (Accepts), and refuses otherwise.  A command that raises before its     *)
(* write is over at once.                                                  *)
(***************************************************************************)
HubOps ==
    {"iot_hub_policy_create", "iot_hub_policy_delete", "iot_hub_policy_key_renew",
     "iot_hub_route_create",
     "iot_hub_route_delete", "iot_hub_routing_endpoint_create",
     "iot_hub_routing_endpoint_delete", "iot_message_enrichment_create",
     "iot_message_enrichment_delete"}

RaceInit ==
    /\ hub = Some(UsedHub)
    /\ dps = Some(UsedDps)
    /\ last = NoCommand
    /\ cmds = 0
    /\ race = NoRace
    /\ certs = NoCerts
    /\ listing = OneListed

\* the place of the create_or_update among the calls of a command
WriteAt(calls) == FirstIndex([k \in 1..Len(calls) |-> calls[k] = "create_or_update"])

\* a command that goes on after a refused create_or_update
Issued_after_refusal(calls, answer) == calls

\* the calls a command has made when its create_or_update is answered: the
\* exception of a refused write is not caught, so the command ends there
Issued(calls, answer) ==
    IF answer = "ok" THEN calls ELSE SubSeq(calls, 1, WriteAt(calls))

Begin(a, op, args, o) ==
    /\ race[a].phase = "idle"
    /\ race' = [race EXCEPT ![a] =
                    [phase |-> IF o.written = None THEN "done" ELSE "read",
                     answer |-> IF o.written = None THEN o.result ELSE "none",
                     calls |-> IF o.written = None THEN o.calls
                               ELSE SubSeq(o.calls, 1, WriteAt(o.calls) - 1),
                     cmd |-> [op |-> op, args |-> args] @@ o]]
    /\ UNCHANGED <<hub, dps, last, cmds, certs, listing>>

HubBegin(a) ==
    \E name \in Names, rg \in ResourceGroups :
        \/ Begin(a, "iot_hub_policy_create", [policy_name |-> name],
                 iot_hub_policy_create(name, <<"registryread">>, rg))
        \/ Begin(a, "iot_hub_policy_delete", [policy_name |-> name],
                 iot_hub_policy_delete(name, rg))
        \/ \E no_wait \in BOOLEAN :
            Begin(a, "iot_hub_policy_key_renew", [policy_name |-> name, no_wait |-> no_wait],
                  iot_hub_policy_key_renew(name, RenewSwap, "k9", rg, no_wait))
        \/ Begin(a, "iot_hub_route_create", [route_name |-> name],
                 iot_hub_route_create(name, "DeviceMessages", "e1", None, None, rg))
        \/ Begin(a, "iot_hub_route_delete", [route_name |-> name],
                 iot_hub_route_delete(Some(name), None, rg))
        \/ Begin(a, "iot_hub_routing_endpoint_create", [endpoint_name |-> name],
                 iot_hub_routing_endpoint_create(
                     name, EventHub, "erg", "sub", "cs", None, None, rg, 300, 300,
                     "{iothub}/{partition}/{YYYY}/{MM}/{DD}/{HH}/{mm}"))
        \/ Begin(a, "iot_hub_routing_endpoint_delete", [endpoint_name |-> name],
                 iot_hub_routing_endpoint_delete(Some(name), None, rg))
        \/ Begin(a, "iot_message_enrichment_create", [key |-> name],
                 iot_message_enrichment_create(name, "v1", <<"e1">>, rg))
        \/ Begin(a, "iot_message_enrichment_delete", [key |-> name],
                 iot_message_enrichment_delete(name, rg))

DpsBegin(a) ==
    \E name \in Names, rg \in ResourceGroups :
        \/ Begin(a, "iot_dps_access_policy_create", [access_policy_name |-> name],
                 iot_dps_access_policy_create(rg, name, <<"EnrollmentWrite">>,
                                              None, None, TRUE))
        \/ \E no_wait \in BOOLEAN :
            Begin(a, "iot_dps_access_policy_update", [access_policy_name |-> name],
                  iot_dps_access_policy_update(rg, name, Some("k3"), None, None, no_wait))
        \/ Begin(a, "iot_dps_access_policy_delete", [access_policy_name |-> name],
                 iot_dps_access_policy_delete(rg, name, TRUE))
        \/ Begin(a, "iot_dps_linked_hub_create", [linked_hub |-> name],
                 iot_dps_linked_hub_create(rg, [HostName |-> name], "westus",
                                           None, None, TRUE))
        \/ Begin(a, "iot_dps_linked_hub_update", [linked_hub |-> name],
                 iot_dps_linked_hub_update(rg, name, Some(FALSE), None, TRUE))
        \/ Begin(a, "iot_dps_linked_hub_delete", [linked_hub |-> name],
                 iot_dps_linked_hub_delete(rg, name, TRUE))

\* the answer of the service to a create_or_update
Answer(stored, if_match) == IF Accepts(stored, if_match) THEN "ok" ELSE "Conflict"

HubSend(a) ==
    /\ race[a].phase = "read"
    /\ race[a].cmd.op \in HubOps
    /\ hub' = HubAfter(race[a].cmd)
    /\ race' = [race EXCEPT ![a].phase = "done",
                            ![a].answer = Answer(hub, race[a].cmd.if_match),
                            ![a].calls = Issued(race[a].cmd.calls,
                                                Answer(hub, race[a].cmd.if_match))]
    /\ UNCHANGED <<dps, last, cmds, certs, listing>>

DpsRaceSend(a) ==
    /\ race[a].phase = "read"
    /\ race[a].cmd.op \notin HubOps
    /\ dps' = DpsAfter(race[a].cmd)
    /\ race' = [race EXCEPT ![a].phase = "done",
                            ![a].answer = Answer(dps, race[a].cmd.if_match),
                            ![a].calls = Issued(race[a].cmd.calls,
                                                Answer(dps, race[a].cmd.if_match))]
    /\ UNCHANGED <<hub, last, cmds, certs, listing>>

RaceNext ==
    \/ \E a \in Actors : HubBegin(a)
    \/ \E a \in Actors : HubSend(a)
    \/ \E a \in Actors : DpsBegin(a)
    \/ \E a \in Actors : DpsRaceSend(a)

SpecRace == RaceInit /\ [][RaceNext]_vars

(***************************************************************************)
(* What the last command fetched and sent.                                 *)
(***************************************************************************)
Wrote == last.written # None

Fetched == Val(last.fetched)

Written == Val(last.written)

\* the entries of seq whose name equals name ignoring case
Matching(seq, name(_), n) == {i \in 1..Len(seq) : Lower(name(seq[i])) = Lower(n)}

UniqueNames(seq, name(_)) ==
    \A i, j \in 1..Len(seq) : i # j => Lower(name(seq[i])) # Lower(name(seq[j]))

KeyName(p) == p.key_name

EntryName(e) == e.name

HubName(h) == Val(h.name)

EnrichmentKey(e) == e.key

(***************************************************************************)
(* C1: from resources whose sub-collections have unique names ignoring     *)
(* case, every sequence of sub-entity commands leaves every sub-collection *)
(* (policies, linked hubs, routes, endpoints of each type, enrichments)    *)
(* with unique names ignoring case.  The create commands for routes,       *)
(* endpoints, enrichments and linked hubs do not look for the name, so     *)
(* this does not hold.                                                     *)
(***************************************************************************)
C1_NamesStayUnique ==
    /\ hub # None =>
        LET p == Val(hub).properties
        IN  /\ UniqueNames(p.authorization_policies, KeyName)
            /\ UniqueNames(p.routing.routes, EntryName)
            /\ UniqueNames(p.routing.endpoints.service_bus_queues, EntryName)
            /\ UniqueNames(p.routing.endpoints.service_bus_topics, EntryName)
            /\ UniqueNames(p.routing.endpoints.storage_containers, EntryName)
            /\ UniqueNames(p.routing.endpoints.event_hubs, EntryName)
            /\ p.routing.enrichments # None =>
                    UniqueNames(Val(p.routing.enrichments), EnrichmentKey)
    /\ dps # None =>
        LET p == Val(dps).properties
        IN  /\ UniqueNames(p.authorization_policies, KeyName)
            /\ UniqueNames(p.iot_hubs, HubName)

(***************************************************************************)
(* C2: iot_hub_policy_create and iot_dps_access_policy_create raise the    *)
(* user-facing error, and send nothing, whenever the fetched collection    *)
(* holds a policy whose name equals the requested one ignoring case;       *)
(* otherwise they send the fetched policies with the new policy appended.  *)
(***************************************************************************)
PolicyCreateOps == {"iot_hub_policy_create", "iot_dps_access_policy_create"}

CreatedPolicyName ==
    IF last.op = "iot_hub_policy_create" THEN last.args.policy_name
    ELSE last.args.access_policy_name

C2_PolicyCreateRejectsDuplicate ==
    (last.op \in PolicyCreateOps /\ last.fetched # None) =>
        LET before == Fetched.properties.authorization_policies
        IN  IF Matching(before, KeyName, CreatedPolicyName) # {}
            THEN last.result = "CLIError" /\ ~Wrote
            ELSE /\ last.result = "ok"
                 /\ Wrote
                 /\ LET after == Written.properties.authorization_policies
                    IN  /\ Len(after) = Len(before) + 1
                        /\ SubSeq(after, 1, Len(before)) = before
                        /\ after[Len(after)].key_name = CreatedPolicyName

\* creating "N1" on a hub that has "n1" was refused
C2_Witness ==
    /\ last.op = "iot_hub_policy_create"
    /\ last.args.policy_name = "N1"
    /\ last.fetched # None
    /\ \E i \in 1..Len(Fetched.properties.authorization_policies) :
            Fetched.properties.authorization_policies[i].key_name = "n1"
    /\ last.result = "CLIError"
    /\ last.error = "Policy already existed."

(***************************************************************************)
(* C3: every command that deletes or updates a named sub-entity raises the *)
(* user-facing not-found error, and sends nothing, when the fetched        *)
(* collection has no entry of that name.  Deleting a route or a routing    *)
(* endpoint by a name that is absent sends the resource back unchanged     *)
(* instead.                                                                *)
(***************************************************************************)
\* the command named an entry, and the fetched collection has none of that name
C3_NamedEntryAbsent ==
    /\ last.fetched # None
    /\ \/ /\ last.op \in {"iot_hub_policy_delete", "iot_hub_policy_key_renew"}
          /\ Matching(Fetched.properties.authorization_policies, KeyName,
                      last.args.policy_name) = {}
       \/ /\ last.op \in {"iot_dps_access_policy_update", "iot_dps_access_policy_delete"}
          /\ Matching(Fetched.properties.authorization_policies, KeyName,
                      last.args.access_policy_name) = {}
       \/ /\ last.op \in {"iot_dps_linked_hub_update", "iot_dps_linked_hub_delete"}
          /\ Matching(Fetched.properties.iot_hubs, HubName, last.args.linked_hub) = {}
       \/ /\ last.op = "iot_hub_route_update"
          /\ Matching(Fetched.properties.routing.routes, EntryName, last.args.route_name) = {}
       \/ /\ last.op = "iot_hub_route_delete"
          /\ TruthyStr(last.args.route_name)
          /\ Matching(Fetched.properties.routing.routes, EntryName,
                      Val(last.args.route_name)) = {}
       \/ /\ last.op = "iot_hub_routing_endpoint_delete"
          /\ TruthyStr(last.args.endpoint_name)
          /\ LET e == Fetched.properties.routing.endpoints
                 n == Val(last.args.endpoint_name)
             IN  /\ Matching(e.service_bus_queues, EntryName, n) = {}
                 /\ Matching(e.service_bus_topics, EntryName, n) = {}
                 /\ Matching(e.storage_containers, EntryName, n) = {}
                 /\ Matching(e.event_hubs, EntryName, n) = {}

C3_MissingNameIsNotFound ==
    C3_NamedEntryAbsent => (last.result = "CLIError" /\ ~Wrote)

(***************************************************************************)
(* C4: in iot_dps_access_policy_update, iot_dps_linked_hub_update,         *)
(* iot_hub_route_update and update_iot_hub_custom, every field whose       *)
(* argument is None has in the resource sent the value it had in the       *)
(* resource fetched, and every entry but the named one is sent as fetched. *)
(***************************************************************************)
\* an argument that is None leaves the field as it was
Kept(argument, after, before) == argument = None => after = before

C4_PolicyFieldsKept ==
    LET before == Fetched.properties.authorization_policies
        after == Written.properties.authorization_policies
    IN  /\ Len(after) = Len(before)
        /\ \A i \in 1..Len(before) :
            /\ after[i].key_name = before[i].key_name
            /\ before[i].key_name # last.args.access_policy_name => after[i] = before[i]
            /\ Kept(last.args.primary_key, after[i].primary_key, before[i].primary_key)
            /\ Kept(last.args.secondary_key, after[i].secondary_key, before[i].secondary_key)
            /\ Kept(last.args.rights, after[i].rights, before[i].rights)

C4_LinkedHubFieldsKept ==
    LET before == Fetched.properties.iot_hubs
        after == Written.properties.iot_hubs
    IN  /\ Len(after) = Len(before)
        /\ \A i \in 1..Len(before) :
            /\ after[i].name = before[i].name
            /\ after[i].connection_string = before[i].connection_string
            /\ after[i].location = before[i].location
            /\ before[i].name # Some(last.args.linked_hub) => after[i] = before[i]
            /\ Kept(last.args.apply_allocation_policy, after[i].apply_allocation_policy,
                    before[i].apply_allocation_policy)
            /\ Kept(last.args.allocation_weight, after[i].allocation_weight,
                    before[i].allocation_weight)

C4_RouteFieldsKept ==
    LET before == Fetched.properties.routing.routes
        after == Written.properties.routing.routes
    IN  /\ Len(after) = Len(before)
        /\ \A i \in 1..Len(before) :
            /\ after[i].name = before[i].name
            /\ Lower(before[i].name) # Lower(last.args.route_name) => after[i] = before[i]
            /\ Kept(last.args.source_type, after[i].source, before[i].source)
            /\ Kept(last.args.endpoint_name, after[i].endpoint_names, before[i].endpoint_names)
            /\ Kept(last.args.condition, after[i].condition, before[i].condition)
            /\ Kept(last.args.enabled, after[i].is_enabled, before[i].is_enabled)

\* the field of the hub that an argument of iot hub update sets
HubField(h, f) ==
    CASE f = "sku" -> h.sku.name
      [] f = "unit" -> h.sku.capacity
      [] f = "retention_day" -> h.properties.event_hub_endpoints.events.retention_time_in_days
      [] f = "c2d_ttl" -> h.properties.cloud_to_device.default_ttl_as_iso8601
      [] f = "c2d_max_delivery_count" -> h.properties.cloud_to_device.max_delivery_count
      [] f = "feedback_lock_duration" ->
            h.properties.cloud_to_device.feedback.lock_duration_as_iso8601
      [] f = "feedback_ttl" -> h.properties.cloud_to_device.feedback.ttl_as_iso8601
      [] f = "feedback_max_delivery_count" ->
            h.properties.cloud_to_device.feedback.max_delivery_count
      [] f = "enable_fileupload_notifications" -> h.properties.enable_file_upload_notifications
      [] f = "fileupload_notification_max_delivery_count" ->
            h.properties.messaging_endpoints.fileNotifications.max_delivery_count
      [] f = "fileupload_notification_ttl" ->
            h.properties.messaging_endpoints.fileNotifications.ttl_as_iso8601
      [] f = "fileupload_storage_connectionstring" ->
            h.properties.storage_endpoints.default.connection_string
      [] f = "fileupload_storage_container_name" ->
            h.properties.storage_endpoints.default.container_name
      [] f = "fileupload_sas_ttl" -> h.properties.storage_endpoints.default.sas_ttl_as_iso8601

C4_HubFieldsKept ==
    /\ \A f \in UpdateArgNames : Kept(last.args[f], HubField(Written, f), HubField(Fetched, f))
    /\ Written.properties.authorization_policies = Fetched.properties.authorization_policies
    /\ Written.properties.routing = Fetched.properties.routing
    /\ Written.location = Fetched.location
    /\ Written.properties.event_hub_endpoints.events.partition_count =
            Fetched.properties.event_hub_endpoints.events.partition_count

C4_OmittedFieldsKept ==
    Wrote =>
        /\ last.op = "iot_dps_access_policy_update" => C4_PolicyFieldsKept
        /\ last.op = "iot_dps_linked_hub_update" => C4_LinkedHubFieldsKept
        /\ last.op = "iot_hub_route_update" => C4_RouteFieldsKept
        /\ last.op = "iot_hub_update" => C4_HubFieldsKept

\* a policy with the keys k1 and k2, updated with the secondary key k4 only,
\* is sent with the keys k1 and k4, next to a second policy
C4_Witness ==
    /\ last.op = "iot_dps_access_policy_update"
    /\ last.args.access_policy_name = "n1"
    /\ last.args.primary_key = None
    /\ last.args.secondary_key = Some("k4")
    /\ Wrote
    /\ \E i \in 1..Len(Fetched.properties.authorization_policies) :
        /\ Fetched.properties.authorization_policies[i].key_name = "n1"
        /\ Fetched.properties.authorization_policies[i].primary_key = Some("k1")
        /\ Fetched.properties.authorization_policies[i].secondary_key = Some("k2")
        /\ Written.properties.authorization_policies[i].primary_key = Some("k1")
        /\ Written.properties.authorization_policies[i].secondary_key = Some("k4")
    /\ Len(Written.properties.authorization_policies) = 2

(***************************************************************************)
(* C5: when iot_dps_access_policy_update or iot_dps_linked_hub_update is   *)
(* given a name that equals an entry's name ignoring case, the fields      *)
(* supplied are applied to that entry in the resource sent.  The commands  *)
(* accept such a name but pick the entry by its exact name, so a name that *)
(* differs in case changes nothing.                                        *)
(***************************************************************************)
Applied(argument, after) == argument # None => after = argument

C5_UpdateMatchesIgnoringCase ==
    Wrote =>
        /\ last.op = "iot_dps_access_policy_update" =>
            \A i \in Matching(Fetched.properties.authorization_policies, KeyName,
                              last.args.access_policy_name) :
                LET after == Written.properties.authorization_policies[i]
                IN  /\ Applied(last.args.primary_key, after.primary_key)
                    /\ Applied(last.args.secondary_key, after.secondary_key)
                    /\ last.args.rights # None =>
                        after.rights = {Val(last.args.rights)[k] :
                                            k \in 1..Len(Val(last.args.rights))}
        /\ last.op = "iot_dps_linked_hub_update" =>
            \A i \in Matching(Fetched.properties.iot_hubs, HubName, last.args.linked_hub) :
                LET after == Written.properties.iot_hubs[i]
                IN  /\ Applied(last.args.apply_allocation_policy, after.apply_allocation_policy)
                    /\ Applied(last.args.allocation_weight, after.allocation_weight)

(***************************************************************************)
(* C6: round trip, for every sub-collection: after a successful create of  *)
(* X the collection lists X exactly once; after a following successful     *)
(* delete of X the collection does not list X and is otherwise as it was   *)
(* before the create.  Only the policy commands refuse a name that is      *)
(* there already (C1), so a second X can be created, and the delete then   *)
(* takes both.                                                             *)
(***************************************************************************)
\* the endpoints of one type
TypedEndpoints(endpoints, type) ==
    CASE Lower(type) = ServiceBusQueue -> endpoints.service_bus_queues
      [] Lower(type) = ServiceBusTopic -> endpoints.service_bus_topics
      [] Lower(type) = AzureStorageContainer -> endpoints.storage_containers
      [] Lower(type) = EventHub -> endpoints.event_hubs

\* the sub-collection a successful create added to ("none" for other commands),
\* and the name it added
CreatedKind(l) ==
    IF l.result # "ok" \/ l.written = None THEN "none"
    ELSE CASE l.op \in PolicyCreateOps -> "policy"
           [] l.op = "iot_dps_linked_hub_create" -> "linked_hub"
           [] l.op = "iot_hub_route_create" -> "route"
           [] l.op = "iot_hub_routing_endpoint_create" -> "endpoint"
           [] l.op = "iot_message_enrichment_create" -> "enrichment"
           [] OTHER -> "none"

CreatedName(l) ==
    CASE l.op = "iot_hub_policy_create" -> l.args.policy_name
      [] l.op = "iot_dps_access_policy_create" -> l.args.access_policy_name
      [] l.op = "iot_dps_linked_hub_create" -> l.args.connection_string.HostName
      [] l.op = "iot_hub_route_create" -> l.args.route_name
      [] l.op = "iot_hub_routing_endpoint_create" -> l.args.endpoint_name
      [] l.op = "iot_message_enrichment_create" -> l.args.key

\* the name a successful delete by name took out, None for other commands
DeletedName(l) ==
    IF l.result # "ok" \/ l.written = None THEN None
    ELSE CASE l.op = "iot_hub_policy_delete" -> Some(l.args.policy_name)
           [] l.op = "iot_dps_access_policy_delete" -> Some(l.args.access_policy_name)
           [] l.op = "iot_dps_linked_hub_delete" -> Some(l.args.linked_hub)
           [] l.op = "iot_hub_route_delete" ->
                IF l.args.source_type = None THEN l.args.route_name ELSE None
           [] l.op = "iot_hub_routing_endpoint_delete" ->
                IF l.args.endpoint_type = None THEN l.args.endpoint_name ELSE None
           [] l.op = "iot_message_enrichment_delete" -> Some(l.args.key)
           [] OTHER -> None

DeleteOf(op) ==
    CASE op = "iot_hub_policy_create" -> "iot_hub_policy_delete"
      [] op = "iot_dps_access_policy_create" -> "iot_dps_access_policy_delete"
      [] op = "iot_dps_linked_hub_create" -> "iot_dps_linked_hub_delete"
      [] op = "iot_hub_route_create" -> "iot_hub_route_delete"
      [] op = "iot_hub_routing_endpoint_create" -> "iot_hub_routing_endpoint_delete"
      [] op = "iot_message_enrichment_create" -> "iot_message_enrichment_delete"

\* the names and entries of the sub-collection that create command l adds to,
\* as resource r lists them
Listing(l, r) ==
    LET Named(seq, name(_)) == [i \in 1..Len(seq) |-> [name |-> name(seq[i]), entry |-> seq[i]]]
    IN  CASE CreatedKind(l) = "policy" -> Named(r.properties.authorization_policies, KeyName)
          [] CreatedKind(l) = "linked_hub" -> Named(r.properties.iot_hubs, HubName)
          [] CreatedKind(l) = "route" -> Named(r.properties.routing.routes, EntryName)
          [] CreatedKind(l) = "endpoint" ->
                Named(TypedEndpoints(r.properties.routing.endpoints, l.args.endpoint_type),
                      EntryName)
          [] CreatedKind(l) = "enrichment" ->
                Named(IF r.properties.routing.enrichments = None
                      THEN <<>> ELSE Val(r.properties.routing.enrichments),
                      EnrichmentKey)

\* the resource of create command l as the service has it in the state h, d
Stored(l, h, d) == IF l.op \in {"iot_dps_access_policy_create", "iot_dps_linked_hub_create"}
                   THEN Val(d) ELSE Val(h)

ListedName(e) == e.name

C6_ListedOnce ==
    CreatedKind(last) # "none" =>
        Cardinality(Matching(Listing(last, Stored(last, hub, dps)), ListedName,
                             CreatedName(last))) = 1

C6_DeleteRestores ==
    (/\ CreatedKind(last) # "none"
     /\ last'.op = DeleteOf(last.op)
     /\ DeletedName(last') = Some(CreatedName(last)))
    => /\ Matching(Listing(last, Stored(last, hub', dps')), ListedName, CreatedName(last)) = {}
       /\ Listing(last, Stored(last, hub', dps')) = Listing(last, Val(last.fetched))

C6_RoundTrip == []C6_ListedOnce /\ [][C6_DeleteRestores]_vars

(***************************************************************************)
(* C7: iot_hub_create with file-upload notifications enabled, but without  *)
(* both a storage connection string and a container name, raises the       *)
(* user-facing error before it makes any network call.                     *)
(***************************************************************************)
C7_CreateValidatesBeforeNetwork ==
    (/\ last.op = "iot_hub_create"
     /\ last.args.enable_fileupload_notifications
     /\ \/ last.args.fileupload_storage_connectionstring \in {None, Some("")}
        \/ last.args.fileupload_storage_container_name \in {None, Some("")})
    => /\ last.result = "CLIError"
       /\ last.calls = <<>>
       /\ ~Wrote

\* notifications enabled with a connection string but no container, while no
\* hub has the name: the name check would have passed
C7_Witness ==
    /\ last.op = "iot_hub_create"
    /\ last.args.enable_fileupload_notifications
    /\ last.args.fileupload_storage_connectionstring = Some("cs")
    /\ last.args.fileupload_storage_container_name = None
    /\ hub = None
    /\ last.result = "CLIError"
    /\ last.calls = <<>>

(***************************************************************************)
(* C8: a routing-endpoint delete given a type and no name sends the        *)
(* endpoints with the sub-collection of that type empty and the other      *)
(* three as fetched.                                                       *)
(***************************************************************************)
EndpointFields == {"service_bus_queues", "service_bus_topics", "storage_containers", "event_hubs"}

\* the sub-collection that holds the endpoints of a type
FieldOfType(type) ==
    CASE Lower(type) = ServiceBusQueue -> "service_bus_queues"
      [] Lower(type) = ServiceBusTopic -> "service_bus_topics"
      [] Lower(type) = AzureStorageContainer -> "storage_containers"
      [] Lower(type) = EventHub -> "event_hubs"

C8_TypeOnlyDeleteClearsThatType ==
    (/\ last.op = "iot_hub_routing_endpoint_delete"
     /\ last.args.endpoint_name = None
     /\ last.args.endpoint_type # None
     /\ last.fetched # None)
    => /\ Wrote
       /\ \A f \in EndpointFields :
            Written.properties.routing.endpoints[f] =
                IF f = FieldOfType(Val(last.args.endpoint_type))
                THEN <<>>
                ELSE Fetched.properties.routing.endpoints[f]

\* the event hubs were deleted by type while the hub had an event hub, a
\* queue and a storage container
C8_Witness ==
    /\ last.op = "iot_hub_routing_endpoint_delete"
    /\ last.args.endpoint_name = None
    /\ last.args.endpoint_type = Some("EventHub")
    /\ Wrote
    /\ Fetched.properties.routing.endpoints.event_hubs # <<>>
    /\ Fetched.properties.routing.endpoints.service_bus_queues # <<>>
    /\ Fetched.properties.routing.endpoints.storage_containers # <<>>
    /\ Val(hub).properties.routing.endpoints.event_hubs = <<>>
    /\ Val(hub).properties.routing.endpoints.service_bus_queues # <<>>

(***************************************************************************)
(* C9: a routing-endpoint delete given a name and a type.                  *)
(*   As claimed: the name is removed first, from the first sub-collection  *)
(*   in scan order that has it, and the sub-collection of the type is      *)
(*   cleared after that.                                                   *)
(*   As the code does it: the sub-collection of the type is cleared first, *)
(*   and the name is then removed from the first sub-collection, in the    *)
(*   order queues, topics, storage containers, event hubs, that still has  *)
(*   it.                                                                   *)
(***************************************************************************)
ScanOrder == <<"service_bus_queues", "service_bus_topics", "storage_containers", "event_hubs">>

\* the first sub-collection in scan order, none of those skipped, with the name
FirstWithName(endpoints, name, skipped) ==
    LET has == {k \in 1..Len(ScanOrder) :
                    /\ ScanOrder[k] \notin skipped
                    /\ Matching(endpoints[ScanOrder[k]], EntryName, name) # {}}
    IN  IF has = {} THEN "none"
        ELSE ScanOrder[CHOOSE k \in has : \A m \in has : k <= m]

NameAndTypeDelete ==
    /\ last.op = "iot_hub_routing_endpoint_delete"
    /\ last.args.endpoint_name # None
    /\ last.args.endpoint_type # None
    /\ Wrote

\* the original claim: name first, then type
C9_NameThenType ==
    NameAndTypeDelete =>
        LET before == Fetched.properties.routing.endpoints
            name == Val(last.args.endpoint_name)
            typed == FieldOfType(Val(last.args.endpoint_type))
            hit == FirstWithName(before, name, {})
        IN  \A f \in EndpointFields :
                Written.properties.routing.endpoints[f] =
                    IF f = typed THEN <<>>
                    ELSE IF f = hit
                         THEN SelectSeq(before[f], LAMBDA e : Lower(e.name) # Lower(name))
                         ELSE before[f]

\* the amended claim: type first, then name
C9_TypeThenName ==
    NameAndTypeDelete =>
        LET before == Fetched.properties.routing.endpoints
            name == Val(last.args.endpoint_name)
            typed == FieldOfType(Val(last.args.endpoint_type))
            hit == FirstWithName(before, name, {typed})
        IN  \A f \in EndpointFields :
                Written.properties.routing.endpoints[f] =
                    IF f = typed THEN <<>>
                    ELSE IF f = hit
                         THEN SelectSeq(before[f], LAMBDA e : Lower(e.name) # Lower(name))
                         ELSE before[f]

\* the name was in the queues and in the event hubs, and the queues were the
\* type given: the event hub of that name was removed as well
C9_Witness ==
    /\ NameAndTypeDelete
    /\ FieldOfType(Val(last.args.endpoint_type)) = "service_bus_queues"
    /\ Matching(Fetched.properties.routing.endpoints.service_bus_queues, EntryName,
                Val(last.args.endpoint_name)) # {}
    /\ Matching(Fetched.properties.routing.endpoints.event_hubs, EntryName,
                Val(last.args.endpoint_name)) # {}
    /\ Matching(Written.properties.routing.endpoints.event_hubs, EntryName,
                Val(last.args.endpoint_name)) = {}

(***************************************************************************)
(* C10: every create_or_update that a sub-collection command or a generic  *)
(* update issues, for the hub and for the DPS, carries the entity tag of   *)
(* the resource the command fetched as its IF-MATCH header.  The hub       *)
(* commands do; the DPS commands send no header at all.                    *)
(***************************************************************************)
C10_WritesCarryFetchedEtag ==
    (Wrote /\ last.op # "iot_hub_create") =>
        /\ last.fetched # None
        /\ last.if_match # None
        /\ last.if_match = Fetched.etag

(***************************************************************************)
(* Looking a resource up with no resource group, in a subscription that    *)
(* lists any resources: the listing is None or up to MaxListed names, in   *)
(* any order, names that differ only in case among them.                   *)
(***************************************************************************)
Listings == {None} \cup {Some(names) : names \in UNION {[1..n -> Names] : n \in 0..MaxListed}}

LookupInit ==
    /\ hub = Some(UsedHub)
    /\ dps = Some(UsedDps)
    /\ last = NoCommand
    /\ cmds = 0
    /\ race = NoRace
    /\ certs = NoCerts
    /\ listing \in Listings

Lookup(op, kind) ==
    \E name \in Names :
        LET scanned == _get_by_name(listing, name, kind)
        IN  /\ last' = [op |-> op, args |-> [name |-> name], found |-> scanned.resource]
                       @@ Outcome(IF scanned.ok THEN "ok" ELSE "CLIError", scanned.error,
                                  scanned.calls, None, None, None)
            /\ UNCHANGED <<hub, dps, cmds, race, certs, listing>>

LookupHub == Lookup("_get_iot_hub_by_name", "IoT Hub")

LookupDps == Lookup("_get_iot_dps_by_name", "DPS")

LookupNext == LookupHub \/ LookupDps

SpecLookup == LookupInit /\ [][LookupNext]_vars

(***************************************************************************)
(* Converting permissions: _convert_perms_to_access_rights applied to any  *)
(* list of one to MaxPerms of the four basic permissions, in any order and *)
(* with repetitions.                                                       *)
(***************************************************************************)
MaxPerms == 4

PermLists == UNION {[1..n -> SimpleAccessRights] : n \in 1..MaxPerms}

PermsInit ==
    /\ hub = Some(UsedHub)
    /\ dps = Some(UsedDps)
    /\ last = NoCommand
    /\ cmds = 0
    /\ race = NoRace
    /\ certs = NoCerts
    /\ listing = OneListed

ConvertPerms ==
    \E perm_list \in PermLists :
        /\ last' = [op |-> "_convert_perms_to_access_rights",
                    args |-> [perm_list |-> perm_list],
                    returned |-> _convert_perms_to_access_rights(perm_list)]
                   @@ Outcome("ok", "", <<>>, None, None, None)
        /\ UNCHANGED <<hub, dps, cmds, race, certs, listing>>

SpecPerms == PermsInit /\ [][ConvertPerms]_vars

(***************************************************************************)
(* Certificates.  The hub and the DPS each hold a list of certificates;    *)
(* the service gives a new certificate the tag 1 and changes the tag on    *)
(* every update it accepts.                                                *)
(***************************************************************************)
MaxCertCmds == 3

CertNames == {"n1", "n2"}

CertPaths == {"a.pem", "b.pem", "empty.pem"}

CertEtags == {1, 2}

\* open_certificate: the content of the file, which is empty for an empty file
open_certificate(certificate_path) ==
    CASE certificate_path = "a.pem" -> "ca"
      [] certificate_path = "b.pem" -> "cb"
      [] OTHER -> ""

CertificateDescription(name, etag, certificate) ==
    [name |-> name, etag |-> etag, certificate |-> certificate]

\* for cert in cert_list.value: if cert.name == certificate_name
CertListed(cert_list, certificate_name) ==
    \E i \in 1..Len(cert_list) : cert_list[i].name = certificate_name

\* open the file, refuse an empty one, send the certificate under the name
CertUpload(calls, cert_list, certificate_name, certificate_path, etag) ==
    LET certificate == open_certificate(certificate_path)
    IN  IF certificate = ""
        THEN Raise("Error uploading certificate.",
                   Append(calls, "open_certificate"), Some(cert_list))
        ELSE Outcome("ok", "", calls \o <<"open_certificate", "create_or_update">>,
                     Some(cert_list), Some([name |-> certificate_name, certificate |-> certificate]),
                     etag)

NoResource(calls) == Outcome("CloudError", "ResourceNotFound", calls, None, None, None)

iot_dps_certificate_create(certificate_name, certificate_path) ==
    IF dps = None THEN NoResource(<<"list">>)
    ELSE IF CertListed(certs.dps, certificate_name)
         THEN Raise("Certificate already exists.", <<"list">>, Some(certs.dps))
         ELSE CertUpload(<<"list">>, certs.dps, certificate_name, certificate_path, None)

iot_dps_certificate_update(certificate_name, certificate_path, etag) ==
    IF dps = None THEN NoResource(<<"list">>)
    ELSE IF CertListed(certs.dps, certificate_name)
         THEN CertUpload(<<"list">>, certs.dps, certificate_name, certificate_path, Some(etag))
         ELSE Raise("Certificate does not exist.", <<"list">>, Some(certs.dps))

\* iot_hub_certificate_create opening the file before it looks at the list
iot_hub_certificate_create_opens_first(certificate_name, certificate_path, resource_group_name) ==
    LET ens == _ensure_resource_group_name(resource_group_name)
        calls == Append(ens.calls, "list_by_iot_hub")
    IN  IF ~ens.ok THEN Raise(ens.error, ens.calls, None)
        ELSE IF hub = None THEN NoResource(calls)
        ELSE IF open_certificate(certificate_path) = ""
             THEN Raise("Error uploading certificate.",
                        Append(calls, "open_certificate"), Some(certs.hub))
        ELSE IF CertListed(certs.hub, certificate_name)
             THEN Raise("Certificate already exists.",
                        Append(calls, "open_certificate"), Some(certs.hub))
             ELSE CertUpload(calls, certs.hub, certificate_name, certificate_path, None)

iot_hub_certificate_create(certificate_name, certificate_path, resource_group_name) ==
    LET ens == _ensure_resource_group_name(resource_group_name)
        calls == Append(ens.calls, "list_by_iot_hub")
    IN  IF ~ens.ok THEN Raise(ens.error, ens.calls, None)
        ELSE IF hub = None THEN NoResource(calls)
        ELSE IF CertListed(certs.hub, certificate_name)
             THEN Raise("Certificate already exists.", calls, Some(certs.hub))
             ELSE CertUpload(calls, certs.hub, certificate_name, certificate_path, None)

iot_hub_certificate_update(certificate_name, certificate_path, etag, resource_group_name) ==
    LET ens == _ensure_resource_group_name(resource_group_name)
        calls == Append(ens.calls, "list_by_iot_hub")
    IN  IF ~ens.ok THEN Raise(ens.error, ens.calls, None)
        ELSE IF hub = None THEN NoResource(calls)
        ELSE IF CertListed(certs.hub, certificate_name)
             THEN CertUpload(calls, certs.hub, certificate_name, certificate_path, Some(etag))
             ELSE Raise("Certificate does not exist.", calls, Some(certs.hub))

\* the place of the certificate of that name in the list, 0 for none
CertIndex(stored, name) == FirstIndex([k \in 1..Len(stored) |-> stored[k].name = name])

\* the service takes a new certificate sent without a tag, and an update
\* of a certificate sent with the tag the certificate has
CertAccepts(stored, name, if_match) ==
    IF CertIndex(stored, name) = 0
    THEN if_match = None
    ELSE if_match = Some(stored[CertIndex(stored, name)].etag)

CertStored(stored, written) ==
    IF CertIndex(stored, written.name) = 0
    THEN Append(stored, CertificateDescription(written.name, 1, written.certificate))
    ELSE [stored EXCEPT ![CertIndex(stored, written.name)] =
            CertificateDescription(written.name, @.etag + 1, written.certificate)]

\* the answer to a command: the service's refusal when it sent a
\* certificate that the service does not take
CertAnswer(stored, o) ==
    IF o.written # None /\ ~CertAccepts(stored, Val(o.written).name, o.if_match)
    THEN [o EXCEPT !.result = "CloudError", !.error = "PreconditionFailed"]
    ELSE o

CertsAfter(stored, o) ==
    IF o.written # None /\ CertAccepts(stored, Val(o.written).name, o.if_match)
    THEN CertStored(stored, Val(o.written))
    ELSE stored

CertInit ==
    /\ hub \in {None, Some(UsedHub)}
    /\ dps \in {None, Some(UsedDps)}
    /\ last = NoCommand
    /\ cmds = 0
    /\ race = NoRace
    /\ certs = NoCerts
    /\ listing = OneListed

CertCommand(kind, op, args, o) ==
    /\ cmds < MaxCertCmds
    /\ cmds' = cmds + 1
    /\ certs' = [certs EXCEPT ![kind] = CertsAfter(@, o)]
    /\ last' = [op |-> op, args |-> args] @@ CertAnswer(certs[kind], o)
    /\ UNCHANGED <<hub, dps, race, listing>>

DpsCertificateCreate ==
    \E name \in CertNames, path \in CertPaths :
        CertCommand("dps", "iot_dps_certificate_create",
                    [certificate_name |-> name, certificate_path |-> path],
                    iot_dps_certificate_create(name, path))

DpsCertificateUpdate ==
    \E name \in CertNames, path \in CertPaths, etag \in CertEtags :
        CertCommand("dps", "iot_dps_certificate_update",
                    [certificate_name |-> name, certificate_path |-> path, etag |-> etag],
                    iot_dps_certificate_update(name, path, etag))

HubCertificateCreate ==
    \E name \in CertNames, path \in CertPaths, rg \in {None, Some("rg")} :
        CertCommand("hub", "iot_hub_certificate_create",
                    [certificate_name |-> name, certificate_path |-> path],
                    iot_hub_certificate_create(name, path, rg))

HubCertificateUpdate ==
    \E name \in CertNames, path \in CertPaths, etag \in CertEtags, rg \in {None, Some("rg")} :
        CertCommand("hub", "iot_hub_certificate_update",
                    [certificate_name |-> name, certificate_path |-> path, etag |-> etag],
                    iot_hub_certificate_update(name, path, etag, rg))

CertNext ==
    \/ DpsCertificateCreate
    \/ DpsCertificateUpdate
    \/ HubCertificateCreate
    \/ HubCertificateUpdate

SpecCert == CertInit /\ [][CertNext]_vars

(***************************************************************************)
(* C11: hub sub-collection commands of two callers, with a service that    *)
(* refuses a stale IF-MATCH tag and changes the tag on every write it      *)
(* accepts.  When a command sends, the service accepts the write only if   *)
(* the hub it holds is the hub the command fetched; if another write was   *)
(* accepted in between, the answer is Conflict and the hub stays as the    *)
(* other caller left it.                                                   *)
(***************************************************************************)
Sends(a) == race[a].phase = "read" /\ race'[a].phase = "done"

C11_HubSendStep ==
    \A a \in Actors :
        (Sends(a) /\ race[a].cmd.op \in HubOps) =>
            IF hub = race[a].cmd.fetched
            THEN race'[a].answer = "ok" /\ hub' = Some(HubStored(hub, Val(race[a].cmd.written)))
            ELSE race'[a].answer = "Conflict" /\ hub' = hub

C11_StaleHubWriteIsRefused == [][C11_HubSendStep]_vars

\* both callers read the same hub; the first write was accepted, the second
\* was refused, and the hub holds the first caller's policy
C11_Witness ==
    /\ race["a"].cmd.op = "iot_hub_policy_create"
    /\ race["a"].cmd.args.policy_name = "n2"
    /\ race["a"].answer = "ok"
    /\ race["b"].cmd.op = "iot_hub_route_create"
    /\ race["b"].answer = "Conflict"
    /\ race["b"].cmd.fetched = race["a"].cmd.fetched
    /\ \E i \in 1..Len(Val(hub).properties.authorization_policies) :
            Val(hub).properties.authorization_policies[i].key_name = "n2"

(***************************************************************************)
(* C12: DPS access-policy and linked-hub commands of two callers.  When a  *)
(* command sends, the service accepts the write only if the DPS it holds   *)
(* is the DPS the command read; a change that another caller made after    *)
(* the read makes the answer Conflict and stays in place.  The DPS         *)
(* commands send no IF-MATCH header, so the service accepts the write and  *)
(* the other caller's change is gone.                                      *)
(***************************************************************************)
C12_DpsSendStep ==
    \A a \in Actors :
        (Sends(a) /\ race[a].cmd.op \notin HubOps) =>
            IF dps = race[a].cmd.fetched
            THEN race'[a].answer = "ok" /\ dps' = Some(DpsStored(dps, Val(race[a].cmd.written)))
            ELSE race'[a].answer = "Conflict" /\ dps' = dps

C12_StaleDpsWriteIsRefused == [][C12_DpsSendStep]_vars

(***************************************************************************)
(* C13: the commands that take no_wait (the six DPS sub-collection         *)
(* commands, iot_hub_policy_key_renew, iot_hub_manual_failover) make one   *)
(* write.  With no_wait set the write is the last call of the command;     *)
(* with no_wait unset the write is followed by the wait for the            *)
(* long-running operation and, only after that, by the calls that read the *)
(* result back.                                                            *)
(***************************************************************************)
NoWaitOps ==
    {"iot_dps_access_policy_create", "iot_dps_access_policy_update",
     "iot_dps_access_policy_delete", "iot_dps_linked_hub_create",
     "iot_dps_linked_hub_update", "iot_dps_linked_hub_delete",
     "iot_hub_policy_key_renew", "iot_hub_manual_failover"}

WriteCalls == {"create_or_update", "manual_failover"}

ReadCalls ==
    {"get", "list_keys", "list_keys_for_key_name", "get_keys_for_key_name",
     "check_existence", "check_name_availability", "list_by_subscription"}

\* the places of the writes among the calls of the last command
WritesOf(calls) == {i \in 1..Len(calls) : calls[i] \in WriteCalls}

C13_NoWaitReturnsAfterTheWrite ==
    (/\ last.op \in NoWaitOps
     /\ WritesOf(last.calls) # {}
     /\ last.result # "CloudError")
    => /\ Cardinality(WritesOf(last.calls)) = 1
       /\ LET w == CHOOSE i \in WritesOf(last.calls) : TRUE
              n == Len(last.calls)
          IN  IF last.args.no_wait
              THEN w = n
              ELSE /\ n > w + 1
                   /\ last.calls[w + 1] = "wait"
                   /\ \A i \in (w + 2)..n : last.calls[i] \in ReadCalls

\* a key was renewed without no_wait: the write, the wait, then the read of
\* the policy; and the DPS has taken a write before that
C13_Witness ==
    /\ last.op = "iot_hub_policy_key_renew"
    /\ ~last.args.no_wait
    /\ last.result = "ok"
    /\ last.calls[Len(last.calls)] = "get_keys_for_key_name"
    /\ \E i \in 1..Len(last.calls) - 2 :
            last.calls[i] = "create_or_update" /\ last.calls[i + 1] = "wait"
    /\ Val(dps).etag # Some(1)

(***************************************************************************)
(* C14: with no resource group, the lookup of a hub or a DPS by name       *)
(* returns the first resource of the listing whose name equals the name    *)
(* asked for ignoring case, never one whose name differs ignoring case,    *)
(* and raises the user-facing error when the listing has no such resource. *)
(***************************************************************************)
LookupOps == {"_get_iot_hub_by_name", "_get_iot_dps_by_name"}

\* the places of the listing whose name equals the one asked for, ignoring case
Candidates ==
    IF listing = None THEN {}
    ELSE {k \in 1..Len(Val(listing)) : Lower(Val(listing)[k]) = Lower(last.args.name)}

C14_LookupReturnsFirstMatch ==
    last.op \in LookupOps =>
        IF Candidates = {}
        THEN last.result = "CLIError" /\ last.found = 0
        ELSE /\ last.result = "ok"
             /\ last.found \in Candidates
             /\ \A k \in Candidates : last.found <= k

\* the listing is n2, N1, n1 and n1 was asked for: N1, the second, is returned
C14_Witness ==
    /\ last.op = "_get_iot_hub_by_name"
    /\ listing = Some(<<"n2", "N1", "n1">>)
    /\ last.args.name = "n1"
    /\ last.found = 2
    /\ last.result = "ok"

(***************************************************************************)
(* C15: iot_hub_get with a resource group raises the user-facing error     *)
(* without calling get when the resource group does not exist, or when the *)
(* name check says the hub name is still available.  The resource group is *)
(* checked before the name, and get is called only when both checks pass.  *)
(***************************************************************************)
C15_GetChecksGroupThenName ==
    (last.op = "iot_hub_get" /\ last.args.resource_group_name # None) =>
        IF Val(last.args.resource_group_name) \notin ExistingGroups
        THEN last.result = "CLIError" /\ last.calls = <<"check_existence">>
        ELSE IF hub = None
        THEN /\ last.result = "CLIError"
             /\ last.calls = <<"check_existence", "check_name_availability">>
        ELSE /\ last.result = "ok"
             /\ last.calls = <<"check_existence", "check_name_availability", "get">>
             /\ last.fetched = hub

\* a hub exists, the resource group asked for does not: only the group was
\* checked
C15_Witness ==
    /\ last.op = "iot_hub_get"
    /\ last.args.resource_group_name = Some("rg0")
    /\ hub # None
    /\ last.result = "CLIError"
    /\ last.error = "Resource group could not be found."
    /\ last.calls = <<"check_existence">>

(***************************************************************************)
(* C16: in iot_hub_create and in update_iot_hub_custom, a storage          *)
(* connection string given without a container name, or a container name   *)
(* without a connection string, raises the user-facing error and nothing   *)
(* is sent; both given are both set on the $default storage endpoint of    *)
(* the hub sent; neither given leaves the two as they were (update) or     *)
(* empty (create).                                                         *)
(***************************************************************************)
StorageOf(h) == h.properties.storage_endpoints.default

GivenStorage ==
    {f \in {"fileupload_storage_connectionstring", "fileupload_storage_container_name"} :
        last.args[f] # None}

\* the storage endpoint sent has the two values given
StorageSet ==
    /\ StorageOf(Written).connection_string = Val(last.args.fileupload_storage_connectionstring)
    /\ StorageOf(Written).container_name = Val(last.args.fileupload_storage_container_name)

C16_CreatePairsStorage ==
    CASE Cardinality(GivenStorage) = 1 -> last.result = "CLIError" /\ ~Wrote
      [] Cardinality(GivenStorage) = 2 ->
            IF last.error = "name_availability.message" THEN ~Wrote ELSE Wrote /\ StorageSet
      [] OTHER ->
            Wrote => /\ StorageOf(Written).connection_string = ""
                     /\ StorageOf(Written).container_name = ""

C16_UpdatePairsStorage ==
    CASE Cardinality(GivenStorage) = 1 -> last.result = "CLIError" /\ ~Wrote
      [] Cardinality(GivenStorage) = 2 -> last.fetched # None => (Wrote /\ StorageSet)
      [] OTHER ->
            Wrote => /\ StorageOf(Written).connection_string =
                            StorageOf(Fetched).connection_string
                     /\ StorageOf(Written).container_name = StorageOf(Fetched).container_name

C17_DeleteKeepsTheOthers ==
    Wrote =>
        /\ last.op = "iot_hub_policy_delete" =>
            Written.properties.authorization_policies =
                SelectSeq(Fetched.properties.authorization_policies,
                          LAMBDA p : Lower(p.key_name) # Lower(last.args.policy_name))
        /\ last.op = "iot_dps_access_policy_delete" =>
            Written.properties.authorization_policies =
                SelectSeq(Fetched.properties.authorization_policies,
                          LAMBDA p : Lower(p.key_name) # Lower(last.args.access_policy_name))
        /\ last.op = "iot_dps_linked_hub_delete" =>
            Written.properties.iot_hubs =
                SelectSeq(Fetched.properties.iot_hubs,
                          LAMBDA h : Lower(Val(h.name)) # Lower(last.args.linked_hub))

\* the linked hub n1 was deleted under the name N1, after a hub had been
\* linked: the hubs sent are the others, in their order
C17_Witness ==
    /\ last.op = "iot_dps_linked_hub_delete"
    /\ last.args.linked_hub = "N1"
    /\ Wrote
    /\ Len(Fetched.properties.iot_hubs) = 3
    /\ Fetched.properties.iot_hubs[1].name = Some("n1")
    /\ Len(Written.properties.iot_hubs) = 2
    /\ Written.properties.iot_hubs[1].name = Some("n3")
    /\ Written.properties.iot_hubs[2].name = Some("n2")

(***************************************************************************)
(* C18: the resource that a DPS access-policy or linked-hub create, update *)
(* or delete sends is the fetched DPS with only the targeted collection    *)
(* changed: location, sku, allocation policy, the other collection and the *)
(* tags are those of the fetched resource.                                 *)
(***************************************************************************)
DpsPolicyOps ==
    {"iot_dps_access_policy_create", "iot_dps_access_policy_update", "iot_dps_access_policy_delete"}

DpsLinkedHubOps ==
    {"iot_dps_linked_hub_create", "iot_dps_linked_hub_update", "iot_dps_linked_hub_delete"}

\* what the description is built from: location, sku, allocation policy and
\* the collection the command is not about
C18_BuiltFromTheFetched ==
    (Wrote /\ last.op \in DpsPolicyOps \cup DpsLinkedHubOps) =>
        /\ Written.location = Fetched.location
        /\ Written.sku = Fetched.sku
        /\ Written.properties.allocation_policy = Fetched.properties.allocation_policy
        /\ last.op \in DpsPolicyOps =>
            Written.properties.iot_hubs = Fetched.properties.iot_hubs
        /\ last.op \in DpsLinkedHubOps =>
            Written.properties.authorization_policies = Fetched.properties.authorization_policies

C18_TagsAreSent ==
    (Wrote /\ last.op \in DpsPolicyOps \cup DpsLinkedHubOps) =>
        Written.tags = Fetched.tags

C18_DpsResubmitsWholeResource == C18_BuiltFromTheFetched /\ C18_TagsAreSent

(***************************************************************************)
(* C19: iot_message_enrichment_update and iot_message_enrichment_delete    *)
(* for a key that no enrichment of the fetched hub has end in the          *)
(* user-facing error (CLIError) and send nothing, also when the hub's      *)
(* enrichment list is None or empty.                                       *)
(***************************************************************************)
EnrichmentsOf(h) ==
    IF h.properties.routing.enrichments = None
    THEN <<>> ELSE Val(h.properties.routing.enrichments)

C19_AbsentKeyIsAUserError ==
    ( /\ last.op \in {"iot_message_enrichment_update", "iot_message_enrichment_delete"}
      /\ last.fetched # None
      /\ \A i \in 1..Len(EnrichmentsOf(Fetched)) :
            EnrichmentsOf(Fetched)[i].key # last.args.key )
    => (last.result = "CLIError" /\ ~Wrote)

(***************************************************************************)
(* C20: a certificate create (hub and DPS) for a name that is listed, and  *)
(* a certificate update for a name that is not, end in the user-facing     *)
(* error with the file not opened and nothing sent; a create that          *)
(* succeeds has sent the certificate with no tag, an update that succeeds  *)
(* has sent it with the tag the caller gave.                               *)
(***************************************************************************)
CertCreateOps == {"iot_hub_certificate_create", "iot_dps_certificate_create"}

CertUpdateOps == {"iot_hub_certificate_update", "iot_dps_certificate_update"}

RefusedBeforeTheFile ==
    /\ last.result = "CLIError"
    /\ \A i \in 1..Len(last.calls) :
            last.calls[i] \notin {"open_certificate", "create_or_update"}
    /\ ~Wrote

C20_CertificateCreateAndUpdate ==
    /\ (last.op \in CertCreateOps /\ last.fetched # None
            /\ CertListed(Fetched, last.args.certificate_name))
        => RefusedBeforeTheFile
    /\ (last.op \in CertUpdateOps /\ last.fetched # None
            /\ ~CertListed(Fetched, last.args.certificate_name))
        => RefusedBeforeTheFile
    /\ (last.op \in CertCreateOps /\ last.result = "ok")
        => (Wrote /\ last.if_match = None)
    /\ (last.op \in CertUpdateOps /\ last.result = "ok")
        => (Wrote /\ last.if_match = Some(last.args.etag))

\* the hub's certificate n1 was created and then, under the tag 1 the
\* service gave it, updated; a third command creating n1 again was refused
C20_Witness ==
    /\ last.op = "iot_hub_certificate_create"
    /\ last.args.certificate_name = "n1"
    /\ last.result = "CLIError"
    /\ last.calls = <<"list_by_iot_hub">>
    /\ Len(certs.hub) = 1
    /\ certs.hub[1] = CertificateDescription("n1", 2, "cb")

(***************************************************************************)
(* C21: no command tries again.  A command makes at most one               *)
(* create_or_update; when the service refuses it (Conflict) the command is *)
(* over with that answer and the refused create_or_update is its last      *)
(* call; a command that raised before its write has made no write at all.  *)
(***************************************************************************)
WritesIn(calls) == {i \in 1..Len(calls) : calls[i] = "create_or_update"}

C21_NoLocalRetry ==
    \A a \in Actors :
        /\ Cardinality(WritesIn(race[a].calls)) <= 1
        /\ race[a].answer = "Conflict" =>
            /\ race[a].phase = "done"
            /\ WritesIn(race[a].calls) = {Len(race[a].calls)}
        /\ race[a].answer \notin {"none", "ok", "Conflict"} =>
            /\ race[a].phase = "done"
            /\ WritesIn(race[a].calls) = {}

\* caller a's key renewal, which would have waited and read the policy
\* back, was refused after b's write, and ended with the create_or_update
C21_Witness ==
    /\ race["a"].cmd.op = "iot_hub_policy_key_renew"
    /\ ~race["a"].cmd.args.no_wait
    /\ race["a"].answer = "Conflict"
    /\ race["b"].answer = "ok"
    /\ race["a"].calls[Len(race["a"].calls)] = "create_or_update"
    /\ Len(race["a"].cmd.calls) > Len(race["a"].calls)

(***************************************************************************)
(* C22: iot hub show-connection-string uses the key that --key selects:    *)
(* with key_type 'secondary' every connection string returned carries the  *)
(* secondary key of its policy, and with 'primary' the primary key.        *)
(***************************************************************************)
PolicyNamed(h, name) ==
    LET found == SelectSeq(h.properties.authorization_policies, LAMBDA p : p.key_name = name)
    IN  found[1]

C22_ConnectionStringUsesSelectedKey ==
    (last.op = "iot_hub_show_connection_string" /\ last.result = "ok") =>
        \A i \in 1..Len(last.returned) :
            last.returned[i].SharedAccessKey =
                IF last.args.key_type = "secondary"
                THEN PolicyNamed(Fetched, last.returned[i].SharedAccessKeyName).secondary_key
                ELSE PolicyNamed(Fetched, last.returned[i].SharedAccessKeyName).primary_key

(***************************************************************************)
(* C23: a routing-endpoint delete given only a name changes at most one    *)
(* typed sub-collection: the first, in the order queues, topics, storage   *)
(* containers, event hubs, that holds an entry of that name ignoring case. *)
(* Every entry of that name is removed from it, and the other three are    *)
(* sent as fetched, also when they hold an entry of the same name.         *)
(***************************************************************************)
NameOnlyDelete ==
    /\ last.op = "iot_hub_routing_endpoint_delete"
    /\ last.args.endpoint_name # None
    /\ last.args.endpoint_type = None
    /\ last.fetched # None

C23_NameOnlyDeleteTakesFirstMatch ==
    NameOnlyDelete =>
        /\ Wrote
        /\ LET before == Fetched.properties.routing.endpoints
               name == Val(last.args.endpoint_name)
               hit == FirstWithName(before, name, {})
           IN  \A f \in EndpointFields :
                    Written.properties.routing.endpoints[f] =
                        IF f = hit
                        THEN SelectSeq(before[f], LAMBDA e : Lower(e.name) # Lower(name))
                        ELSE before[f]

\* the name was in the queues and in the event hubs: the queue of that name
\* was removed and the event hub of that name stayed
C23_Witness ==
    /\ NameOnlyDelete
    /\ Wrote
    /\ Matching(Fetched.properties.routing.endpoints.service_bus_queues, EntryName,
                Val(last.args.endpoint_name)) # {}
    /\ Matching(Fetched.properties.routing.endpoints.event_hubs, EntryName,
                Val(last.args.endpoint_name)) # {}
    /\ Matching(Written.properties.routing.endpoints.service_bus_queues, EntryName,
                Val(last.args.endpoint_name)) = {}
    /\ Written.properties.routing.endpoints.event_hubs =
            Fetched.properties.routing.endpoints.event_hubs

(***************************************************************************)
(* C24: in every hub state and for every endpoint name, the entry that     *)
(* iot_hub_routing_endpoint_show returns for the name is in the typed      *)
(* sub-collection that a delete given only that name takes the name out    *)
(* of: the delete sends that sub-collection without any entry of the name. *)
(***************************************************************************)
C24_DeleteRemovesWhatShowReturns ==
    hub # None =>
        \A name \in Names, rg \in ResourceGroups :
            LET shown == iot_hub_routing_endpoint_show(name, rg)
                deleted == iot_hub_routing_endpoint_delete(Some(name), None, rg)
            IN  shown.result = "ok" =>
                    /\ deleted.written # None
                    /\ ~HasName(Val(deleted.written).properties.routing.endpoints[
                                    shown.returned[1].kind], name)

(***************************************************************************)
(* C25: iot_hub_route_delete sends exactly the fetched routes whose name   *)
(* differs ignoring case from route_name, when a name is given, and whose  *)
(* source differs ignoring case from source_type, when a source is given,  *)
(* in their order; with both given a route that matches either is removed, *)
(* and with neither given no route is sent.                                *)
(***************************************************************************)
RouteKept(route, route_name, source_type) ==
    /\ route_name # None => Lower(route.name) # Lower(Val(route_name))
    /\ source_type # None => Lower(route.source) # Lower(Val(source_type))
    /\ route_name # None \/ source_type # None

C25_RouteDeleteKeepsTheOthers ==
    (last.op = "iot_hub_route_delete" /\ last.fetched # None) =>
        /\ Wrote
        /\ Written.properties.routing.routes =
                SelectSeq(Fetched.properties.routing.routes,
                          LAMBDA route : RouteKept(route, last.args.route_name,
                                                   last.args.source_type))

\* a name and a source were given; one route had the name and another the
\* source: both were removed and a third route stayed
C25_Witness ==
    /\ last.op = "iot_hub_route_delete"
    /\ last.args.route_name = Some("N1")
    /\ last.args.source_type = Some("TwinChangeEvents")
    /\ Wrote
    /\ Len(Fetched.properties.routing.routes) = 3
    /\ Fetched.properties.routing.routes[1].source = "DeviceMessages"
    /\ Fetched.properties.routing.routes[2].name = "n3"
    /\ Len(Written.properties.routing.routes) = 1
    /\ Written.properties.routing.routes[1] = Fetched.properties.routing.routes[3]

(***************************************************************************)
(* C26: a routing-endpoint delete given neither a name nor a type sends    *)
(* the hub with all four typed endpoint sub-collections empty and with     *)
(* everything else, routes and enrichments included, as fetched.           *)
(***************************************************************************)
DeleteOfAllEndpoints ==
    /\ last.op = "iot_hub_routing_endpoint_delete"
    /\ last.args.endpoint_name = None
    /\ last.args.endpoint_type = None
    /\ last.fetched # None

C26_DeleteAllEmptiesEndpointsOnly ==
    DeleteOfAllEndpoints =>
        /\ Wrote
        /\ \A f \in EndpointFields : Written.properties.routing.endpoints[f] = <<>>
        /\ Written = [Fetched EXCEPT !.properties.routing.endpoints =
                                        Written.properties.routing.endpoints]

\* the hub had a queue, a storage container, an event hub, routes and
\* enrichments: the endpoints are gone and the routes and enrichments stay
C26_Witness ==
    /\ DeleteOfAllEndpoints
    /\ Wrote
    /\ \A f \in EndpointFields \ {"service_bus_topics"} :
            Fetched.properties.routing.endpoints[f] # <<>>
    /\ Val(hub).properties.routing.endpoints = NoEndpoints
    /\ Len(Val(hub).properties.routing.routes) = 2
    /\ Val(hub).properties.routing.enrichments # None

(***************************************************************************)
(* C27: iot_hub_routing_endpoint_create sends the hub with one entry of    *)
(* the given name appended to the typed sub-collection that matches        *)
(* endpoint_type ignoring case, and with the other three sub-collections   *)
(* as fetched; for the storage container type without a container name it  *)
(* ends in the user-facing error and sends nothing.                        *)
(***************************************************************************)
EndpointCreate == last.op = "iot_hub_routing_endpoint_create" /\ last.fetched # None

ContainerNameMissing ==
    /\ FieldOfType(last.args.endpoint_type) = "storage_containers"
    /\ last.args.container_name = None

C27_EndpointCreateAppendsToItsType ==
    EndpointCreate =>
        IF ContainerNameMissing
        THEN last.result = "CLIError" /\ ~Wrote
        ELSE /\ Wrote
             /\ \A f \in EndpointFields :
                    LET before == Fetched.properties.routing.endpoints[f]
                        after == Written.properties.routing.endpoints[f]
                    IN  IF f = FieldOfType(last.args.endpoint_type)
                        THEN /\ Len(after) = Len(before) + 1
                             /\ SubSeq(after, 1, Len(before)) = before
                             /\ after[Len(after)].name = last.args.endpoint_name
                        ELSE after = before

\* an endpoint of the type given as EventHub was created on a hub with a
\* queue, a storage container and an event hub
C27_Witness ==
    /\ EndpointCreate
    /\ last.args.endpoint_type = "EventHub"
    /\ last.args.endpoint_name = "n2"
    /\ Wrote
    /\ Len(Fetched.properties.routing.endpoints.event_hubs) = 1
    /\ Len(Val(hub).properties.routing.endpoints.event_hubs) = 2
    /\ Val(hub).properties.routing.endpoints.event_hubs[2].name = "n2"
    /\ Val(hub).properties.routing.endpoints.service_bus_queues # <<>>

(***************************************************************************)
(* C28: iot_hub_policy_key_renew on an existing policy P sends a policy    *)
(* list in which P has its name and rights as fetched; with Swap P's       *)
(* primary and secondary keys are exchanged, with Primary only the primary *)
(* key is replaced by the new key and with Secondary only the secondary    *)
(* key; every other policy is as fetched and the number of policies is the *)
(* same.  A second Swap of P right after a first gives P the keys it had   *)
(* before the first.                                                       *)
(***************************************************************************)
KeyRenewed == last.op = "iot_hub_policy_key_renew" /\ Wrote

\* the policy of that name ignoring case, and the policies of another name
Renewed(h, name) ==
    SelectSeq(h.properties.authorization_policies,
              LAMBDA p : Lower(p.key_name) = Lower(name))[1]

Others(h, name) ==
    SelectSeq(h.properties.authorization_policies,
              LAMBDA p : Lower(p.key_name) # Lower(name))

C28_RenewChangesTheKeysAskedFor ==
    KeyRenewed =>
        LET before == Renewed(Fetched, last.args.policy_name)
            after == Renewed(Written, last.args.policy_name)
        IN  /\ after.key_name = before.key_name
            /\ after.rights = before.rights
            /\ Others(Written, last.args.policy_name) = Others(Fetched, last.args.policy_name)
            /\ Len(Written.properties.authorization_policies) =
                    Len(Fetched.properties.authorization_policies)
            /\ last.args.regenerate_key = RenewSwap =>
                    /\ after.primary_key = before.secondary_key
                    /\ after.secondary_key = before.primary_key
            /\ last.args.regenerate_key = RenewPrimary =>
                    /\ after.primary_key = Some(last.args.new_key)
                    /\ after.secondary_key = before.secondary_key
            /\ last.args.regenerate_key = RenewSecondary =>
                    /\ after.secondary_key = Some(last.args.new_key)
                    /\ after.primary_key = before.primary_key

SwapOf(l) ==
    /\ l.op = "iot_hub_policy_key_renew"
    /\ l.written # None
    /\ l.args.regenerate_key = RenewSwap

C28_SecondSwapRestores ==
    (/\ SwapOf(last)
     /\ SwapOf(last')
     /\ Lower(last'.args.policy_name) = Lower(last.args.policy_name))
    => /\ Renewed(Val(last'.written), last.args.policy_name).primary_key =
            Renewed(Fetched, last.args.policy_name).primary_key
       /\ Renewed(Val(last'.written), last.args.policy_name).secondary_key =
            Renewed(Fetched, last.args.policy_name).secondary_key

C28_KeyRenew == []C28_RenewChangesTheKeysAskedFor /\ [][C28_SecondSwapRestores]_vars

\* the keys k1 and k2 of policy n1 were swapped twice, the second time under
\* the name N1: the stored policy has k1 and k2 again
C28_Witness ==
    /\ SwapOf(last)
    /\ last.args.policy_name = "N1"
    /\ Renewed(Fetched, "n1").primary_key = Some("k2")
    /\ Renewed(Fetched, "n1").secondary_key = Some("k1")
    /\ Renewed(Val(hub), "n1").primary_key = Some("k1")
    /\ Renewed(Val(hub), "n1").secondary_key = Some("k2")
    /\ Val(hub).etag = Some(3)

(***************************************************************************)
(* C29: _convert_perms_to_access_rights has a value for every non-empty    *)
(* list of the four basic permissions, and the value is the AccessRights   *)
(* member that combines exactly the permissions that occur in the list,    *)
(* whatever their order and however often they occur.                      *)
(***************************************************************************)
\* the right that a basic permission stands for
RightOf(perm) ==
    CASE perm = "registryread" -> "RegistryRead"
      [] perm = "registrywrite" -> "RegistryWrite"
      [] perm = "serviceconnect" -> "ServiceConnect"
      [] perm = "deviceconnect" -> "DeviceConnect"

Converted == last.op = "_convert_perms_to_access_rights"

C29_PermsCombineTheDistinctRights ==
    Converted =>
        last.returned =
            {RightOf(last.args.perm_list[i]) : i \in 1..Len(last.args.perm_list)}

\* three of the four permissions, out of str order and one of them twice
C29_Witness ==
    /\ Converted
    /\ last.args.perm_list = <<"serviceconnect", "deviceconnect", "serviceconnect", "registrywrite">>
    /\ last.returned = {"RegistryWrite", "ServiceConnect", "DeviceConnect"}

(***************************************************************************)
(* C30: a sub-collection command, of the hub or of the DPS, that ends in   *)
(* the user-facing error has made no create_or_update, and the hub and the *)
(* DPS are as they were before the command.                                *)
(***************************************************************************)
SubCollectionOps ==
    {"iot_hub_policy_create", "iot_hub_policy_delete", "iot_hub_policy_key_renew",
     "iot_hub_routing_endpoint_create", "iot_hub_routing_endpoint_delete",
     "iot_hub_route_create", "iot_hub_route_update", "iot_hub_route_delete",
     "iot_message_enrichment_create", "iot_message_enrichment_update",
     "iot_message_enrichment_delete"}
    \cup DpsPolicyOps \cup DpsLinkedHubOps

EndedInUserError(l) == l.op \in SubCollectionOps /\ l.result = "CLIError"

C30_NoWriteBeforeTheError ==
    EndedInUserError(last) =>
        /\ ~Wrote
        /\ \A i \in 1..Len(last.calls) : last.calls[i] # "create_or_update"

C30_ResourceStays ==
    (last' # last /\ EndedInUserError(last')) => (hub' = hub /\ dps' = dps)

C30_UserErrorLeavesResourceAlone ==
    []C30_NoWriteBeforeTheError /\ [][C30_ResourceStays]_vars

====
